---- MODULE Spec2Model ----
(***************************************************************************)
(* State-machine model of the smartcleaners admin dashboard: the Orders    *)
(* view (status workflow, tracking assignment, single and batch delete),   *)
(* the ComboOrders form, the Inventory / Dashboard stock metrics and the   *)
(* Categories / Products listing order.                                    *)
(*                                                                         *)
(* Remote writes are asynchronous: a handler issues a request (it joins    *)
(* `inflight`) and a later step resolves it, either applying it to the     *)
(* store and running the handler's continuation after `await`, or failing  *)
(* and running its catch block.                                            *)
(***************************************************************************)
EXTENDS Integers, Sequences, FiniteSets, TLC

(***************************************************************************)
(* Bounds of the model.                                                    *)
(***************************************************************************)
MaxWrites == 2
MaxInFlight == 1
MaxComboWrites == 1
MaxStockWrites == 1
MaxRaceWrites == 2
MaxPeerWrites == 1
MaxListingWrites == 2
MaxPendingSnapshots == 2
MaxMounts == 3
MaxFailures == 3

(***************************************************************************)
(* Optional values: <<>> is an absent field / document, <<x>> a present x. *)
(***************************************************************************)
None == <<>>
Some(x) == <<x>>
IsSome(o) == o /= <<>>
Get(o) == o[1]

Range(s) == {s[i] : i \in DOMAIN s}

(***************************************************************************)
(* Strings are sequences of characters, so that trim() is computed.        *)
(***************************************************************************)
IsSpace(c) == c = " "

RECURSIVE TrimStart(_)
TrimStart(s) ==
  IF s = <<>> THEN s
  ELSE IF IsSpace(Head(s)) THEN TrimStart(Tail(s)) ELSE s

RECURSIVE TrimEnd(_)
TrimEnd(s) ==
  IF s = <<>> THEN s
  ELSE IF IsSpace(s[Len(s)]) THEN TrimEnd(SubSeq(s, 1, Len(s) - 1)) ELSE s

Trim(s) == TrimEnd(TrimStart(s))

\* What the admin can type into the tracking input.
TrackingInputs == {<<>>, <<" ">>, <<" ", "T">>}

(***************************************************************************)
(* Orders view                                                             *)
(***************************************************************************)
OrderIds == {1, 2}

OrderStatuses ==
  {"pending", "confirmed", "processing", "shipped", "delivered", "cancelled"}

StatusFilters == {"all", "pending"}

VARIABLES
  ordersDb,            \* the `orders` collection: id -> optional document
  trackingNumber,      \* Orders state: text of the tracking input
  statusFilter,        \* Orders state: status filter of the table
  selectedOrderIds,    \* Orders state: ids ticked for batch delete
  isDeleteConfirmOpen, \* Orders state: confirmation dialog open
  isDeleting,          \* Orders state: batch commit in progress
  inflight,            \* remote writes issued and not yet resolved
  clock,               \* number of writes issued; new Date() of a write
  lastToast,           \* description of the most recent toast
  lastWrite            \* history: the most recently resolved write

ordersVars ==
  <<ordersDb, trackingNumber, statusFilter, selectedOrderIds,
    isDeleteConfirmOpen, isDeleting, inflight, clock, lastToast, lastWrite>>

\* An order as the storefront creates it (status pending, no tracking number).
LineItem(q, p) == [quantity |-> q, finalUnitPrice |-> p, lineTotal |-> q * p]

NewOrder(id) ==
  LET items == <<LineItem(id, 100), LineItem(1, 40)>>
      subtotal == 100 * id + 40
      discount == 10 * (id - 1)
      shipping == 50
  IN [status |-> "pending",
      trackingNumber |-> None,
      updatedAt |-> 0,
      createdAt |-> id,
      items |-> items,
      pricing |-> [subtotal |-> subtotal,
                   shippingCost |-> shipping,
                   bulkDiscountTotal |-> discount,
                   finalTotal |-> subtotal - discount + shipping]]

\* updateDoc(ref, patch): the named fields are overwritten, the rest kept.
MergeFields(document, patch) ==
  [f \in DOMAIN document |->
     IF f \in DOMAIN patch THEN patch[f] ELSE document[f]]

\* The payload of updateOrderStatus.
StatusPatchClearsTracking(newStatus, at) ==
  [status |-> newStatus, updatedAt |-> at, trackingNumber |-> None]

StatusPatchResetsTotal(newStatus, at) ==
  [status |-> newStatus, updatedAt |-> at,
   pricing |-> [subtotal |-> 0, shippingCost |-> 0, bulkDiscountTotal |-> 0,
                finalTotal |-> 0]]

StatusPatch(newStatus, at) ==
  [status |-> newStatus, updatedAt |-> at]

\* The payload of updateTrackingNumber.
TrackingPatchKeepsStatus(tn, at) ==
  [trackingNumber |-> Some(tn), updatedAt |-> at]

TrackingPatch(tn, at) ==
  [trackingNumber |-> Some(tn), status |-> "shipped", updatedAt |-> at]

\* !trackingNumber.trim()
IsBlankNoTrim(s) == s = <<>>

IsBlank(s) == Trim(s) = <<>>

\* The table rows: the live snapshot filtered by the status filter, newest first.
MatchesStatus(id) ==
  statusFilter = "all" \/ Get(ordersDb[id]).status = statusFilter

RECURSIVE DescIds(_)
DescIds(S) ==
  IF S = {} THEN <<>>
  ELSE LET m == CHOOSE x \in S : \A y \in S : y <= x
       IN <<m>> \o DescIds(S \ {m})

filteredOrders ==
  DescIds({id \in OrderIds : IsSome(ordersDb[id]) /\ MatchesStatus(id)})

\* A write request; unused fields hold neutral values.
Request(kind, id, status, tn, ids, at) ==
  [kind |-> kind, id |-> id, status |-> status, tn |-> tn, ids |-> ids,
   at |-> at]

\* History of the most recently resolved write: its kind, target, outcome and
\* the status the target document had just before it ("" when it was absent).
NoWrite ==
  [kind |-> "none", id |-> 0, ok |-> FALSE, prior |-> ""]

PriorStatus(id) ==
  IF id \in OrderIds /\ IsSome(ordersDb[id])
  THEN Get(ordersDb[id]).status ELSE ""

Resolved(r, ok) ==
  [kind |-> r.kind, id |-> r.id, ok |-> ok, prior |-> PriorStatus(r.id)]

CanIssue == clock < MaxWrites /\ Cardinality(inflight) < MaxInFlight

Issue(r) ==
  /\ inflight' = inflight \cup {r}
  /\ clock' = clock + 1

OrdersViewInit ==
  /\ trackingNumber = <<>>
  /\ statusFilter = "all"
  /\ selectedOrderIds = <<>>
  /\ isDeleteConfirmOpen = FALSE
  /\ isDeleting = FALSE
  /\ inflight = {}
  /\ clock = 0
  /\ lastToast = ""
  /\ lastWrite = NoWrite

OrdersInit ==
  /\ ordersDb = [id \in OrderIds |-> Some(NewOrder(id))]
  /\ OrdersViewInit

\* onChange of the tracking input.
SetTrackingNumber(s) ==
  /\ trackingNumber' = s
  /\ UNCHANGED <<ordersDb, statusFilter, selectedOrderIds, isDeleteConfirmOpen,
                 isDeleting, inflight, clock, lastToast, lastWrite>>

SetStatusFilter(f) ==
  /\ statusFilter' = f
  /\ UNCHANGED <<ordersDb, trackingNumber, selectedOrderIds,
                 isDeleteConfirmOpen, isDeleting, inflight, clock, lastToast,
                 lastWrite>>

\* updateOrderStatus up to its await.
UpdateOrderStatus(orderId, newStatus) ==
  /\ CanIssue
  /\ Issue(Request("status", orderId, newStatus, <<>>, <<>>, clock + 1))
  /\ UNCHANGED <<ordersDb, trackingNumber, statusFilter, selectedOrderIds,
                 isDeleteConfirmOpen, isDeleting, lastToast, lastWrite>>

\* updateTrackingNumber up to its await, or its early return.
UpdateTrackingNumber(orderId) ==
  IF IsBlank(trackingNumber)
  THEN /\ lastToast' = "Please enter a tracking number"
       /\ UNCHANGED <<ordersDb, trackingNumber, statusFilter, selectedOrderIds,
                      isDeleteConfirmOpen, isDeleting, inflight, clock,
                      lastWrite>>
  ELSE /\ CanIssue
       /\ Issue(Request("tracking", orderId, "", trackingNumber, <<>>,
                        clock + 1))
       /\ UNCHANGED <<ordersDb, trackingNumber, statusFilter, selectedOrderIds,
                      isDeleteConfirmOpen, isDeleting, lastToast, lastWrite>>

\* The await of updateDoc resolves: the document must exist.
StatusWriteSucceeds(r) ==
  /\ r \in inflight /\ r.kind = "status"
  /\ IsSome(ordersDb[r.id])
  /\ ordersDb' = [ordersDb EXCEPT ![r.id] =
        Some(MergeFields(Get(ordersDb[r.id]), StatusPatch(r.status, r.at)))]
  /\ inflight' = inflight \ {r}
  /\ lastToast' = "Order status changed"
  /\ lastWrite' = Resolved(r, TRUE)
  /\ UNCHANGED <<trackingNumber, statusFilter, selectedOrderIds,
                 isDeleteConfirmOpen, isDeleting, clock>>

StatusWriteFails(r) ==
  /\ r \in inflight /\ r.kind = "status"
  /\ inflight' = inflight \ {r}
  /\ lastToast' = "Failed to update order status"
  /\ lastWrite' = Resolved(r, FALSE)
  /\ UNCHANGED <<ordersDb, trackingNumber, statusFilter, selectedOrderIds,
                 isDeleteConfirmOpen, isDeleting, clock>>

TrackingWriteSucceeds(r) ==
  /\ r \in inflight /\ r.kind = "tracking"
  /\ IsSome(ordersDb[r.id])
  /\ ordersDb' = [ordersDb EXCEPT ![r.id] =
        Some(MergeFields(Get(ordersDb[r.id]), TrackingPatch(r.tn, r.at)))]
  /\ inflight' = inflight \ {r}
  /\ lastToast' = "Tracking number added and order marked as shipped"
  /\ trackingNumber' = <<>>
  /\ lastWrite' = Resolved(r, TRUE)
  /\ UNCHANGED <<statusFilter, selectedOrderIds, isDeleteConfirmOpen,
                 isDeleting, clock>>

TrackingWriteFails(r) ==
  /\ r \in inflight /\ r.kind = "tracking"
  /\ inflight' = inflight \ {r}
  /\ lastToast' = "Failed to update tracking number"
  /\ lastWrite' = Resolved(r, FALSE)
  /\ UNCHANGED <<ordersDb, trackingNumber, statusFilter, selectedOrderIds,
                 isDeleteConfirmOpen, isDeleting, clock>>

\* handleSelectAll: the header checkbox.
HandleSelectAll(checked) ==
  /\ selectedOrderIds' = IF checked THEN filteredOrders ELSE <<>>
  /\ UNCHANGED <<ordersDb, trackingNumber, statusFilter, isDeleteConfirmOpen,
                 isDeleting, inflight, clock, lastToast, lastWrite>>

\* handleSelectOrder: the checkbox of a table row; a row is checked exactly
\* when its id is selected, so a click passes the opposite.
HandleSelectOrder(orderId, checked) ==
  /\ orderId \in Range(filteredOrders)
  /\ checked = (orderId \notin Range(selectedOrderIds))
  /\ selectedOrderIds' =
       IF checked THEN Append(selectedOrderIds, orderId)
       ELSE SelectSeq(selectedOrderIds, LAMBDA x : x /= orderId)
  /\ UNCHANGED <<ordersDb, trackingNumber, statusFilter, isDeleteConfirmOpen,
                 isDeleting, inflight, clock, lastToast, lastWrite>>

\* The "Delete Selected" button, shown while something is selected, and the
\* dialog's Cancel button / onOpenChange.
SetIsDeleteConfirmOpen(open) ==
  /\ open => Len(selectedOrderIds) > 0
  /\ ~open => ~isDeleting
  /\ isDeleteConfirmOpen' = open
  /\ UNCHANGED <<ordersDb, trackingNumber, statusFilter, selectedOrderIds,
                 isDeleting, inflight, clock, lastToast, lastWrite>>

\* deleteSelectedOrders up to its await; the button sits in the confirmation
\* dialog and is disabled while isDeleting.
DeleteSelectedOrders ==
  /\ isDeleteConfirmOpen /\ ~isDeleting
  /\ IF Len(selectedOrderIds) = 0
     THEN UNCHANGED ordersVars
     ELSE /\ CanIssue
          /\ isDeleting' = TRUE
          /\ Issue(Request("batch", 0, "", <<>>, selectedOrderIds, clock + 1))
          /\ UNCHANGED <<ordersDb, trackingNumber, statusFilter,
                         selectedOrderIds, isDeleteConfirmOpen, lastToast,
                         lastWrite>>

\* writeBatch(db) with one delete per id, then commit(): the store applies all
\* the deletes together (deleting an absent document is no error).
BatchDeletePartial(db, ids) ==
  {[id \in OrderIds |-> IF id \in D THEN None ELSE db[id]] :
     D \in (SUBSET Range(ids)) \ {{}}}

BatchDelete(db, ids) ==
  {[id \in OrderIds |-> IF id \in Range(ids) THEN None ELSE db[id]]}

BatchCommitSucceeds(r) ==
  /\ r \in inflight /\ r.kind = "batch"
  /\ ordersDb' \in BatchDelete(ordersDb, r.ids)
  /\ inflight' = inflight \ {r}
  /\ lastToast' = "Successfully deleted order(s)"
  /\ selectedOrderIds' = <<>>
  /\ isDeleteConfirmOpen' = FALSE
  /\ isDeleting' = FALSE
  /\ lastWrite' = Resolved(r, TRUE)
  /\ UNCHANGED <<trackingNumber, statusFilter, clock>>

\* A failure path without the finally block: the flag stays set.
BatchCommitFailsStillDeleting(r) ==
  /\ r \in inflight /\ r.kind = "batch"
  /\ inflight' = inflight \ {r}
  /\ lastToast' = "Failed to delete orders"
  /\ lastWrite' = Resolved(r, FALSE)
  /\ UNCHANGED <<ordersDb, trackingNumber, statusFilter, selectedOrderIds,
                 isDeleteConfirmOpen, isDeleting, clock>>

BatchCommitFails(r) ==
  /\ r \in inflight /\ r.kind = "batch"
  /\ inflight' = inflight \ {r}
  /\ lastToast' = "Failed to delete orders"
  /\ isDeleting' = FALSE
  /\ lastWrite' = Resolved(r, FALSE)
  /\ UNCHANGED <<ordersDb, trackingNumber, statusFilter, selectedOrderIds,
                 isDeleteConfirmOpen, clock>>

\* deleteSingleOrder up to its await: the trash button of a table row.
DeleteSingleOrder(orderId) ==
  /\ orderId \in Range(filteredOrders)
  /\ CanIssue
  /\ Issue(Request("single", orderId, "", <<>>, <<>>, clock + 1))
  /\ UNCHANGED <<ordersDb, trackingNumber, statusFilter, selectedOrderIds,
                 isDeleteConfirmOpen, isDeleting, lastToast, lastWrite>>

SingleDeleteSucceeds(r) ==
  /\ r \in inflight /\ r.kind = "single"
  /\ ordersDb' = [ordersDb EXCEPT ![r.id] = None]
  /\ inflight' = inflight \ {r}
  /\ lastToast' = "Order successfully deleted"
  /\ lastWrite' = Resolved(r, TRUE)
  /\ UNCHANGED <<trackingNumber, statusFilter, selectedOrderIds,
                 isDeleteConfirmOpen, isDeleting, clock>>

SingleDeleteFails(r) ==
  /\ r \in inflight /\ r.kind = "single"
  /\ inflight' = inflight \ {r}
  /\ lastToast' = "Failed to delete order"
  /\ lastWrite' = Resolved(r, FALSE)
  /\ UNCHANGED <<ordersDb, trackingNumber, statusFilter, selectedOrderIds,
                 isDeleteConfirmOpen, isDeleting, clock>>

\* The status workflow: status changes, tracking assignment and the deletion
\* of single orders.
WorkflowNext ==
  \/ \E s \in TrackingInputs : SetTrackingNumber(s)
  \/ \E id \in OrderIds, st \in OrderStatuses : UpdateOrderStatus(id, st)
  \/ \E id \in OrderIds : UpdateTrackingNumber(id)
  \/ \E r \in inflight : StatusWriteSucceeds(r)
  \/ \E r \in inflight : StatusWriteFails(r)
  \/ \E r \in inflight : TrackingWriteSucceeds(r)
  \/ \E r \in inflight : TrackingWriteFails(r)
  \/ \E id \in OrderIds : DeleteSingleOrder(id)
  \/ \E r \in inflight : SingleDeleteSucceeds(r)
  \/ \E r \in inflight : SingleDeleteFails(r)

\* Selection and deletion: the filter, the checkboxes, the confirmation
\* dialog, batch and single deletes, with status changes moving orders in and
\* out of the filtered rows.
SelectionNext ==
  \/ \E f \in StatusFilters : SetStatusFilter(f)
  \/ \E id \in OrderIds, st \in OrderStatuses : UpdateOrderStatus(id, st)
  \/ \E r \in inflight : StatusWriteSucceeds(r)
  \/ \E r \in inflight : StatusWriteFails(r)
  \/ \E b \in BOOLEAN : HandleSelectAll(b)
  \/ \E id \in OrderIds, b \in BOOLEAN : HandleSelectOrder(id, b)
  \/ \E b \in BOOLEAN : SetIsDeleteConfirmOpen(b)
  \/ DeleteSelectedOrders
  \/ \E r \in inflight : BatchCommitSucceeds(r)
  \/ \E r \in inflight : BatchCommitFails(r)
  \/ \E id \in OrderIds : DeleteSingleOrder(id)
  \/ \E r \in inflight : SingleDeleteSucceeds(r)
  \/ \E r \in inflight : SingleDeleteFails(r)

(***************************************************************************)
(* ComboOrders view                                                        *)
(***************************************************************************)
ProductIds == {1, 2}

\* The active products offered by the form's checkboxes: id -> price.
ProductPrice == [p \in ProductIds |-> IF p = 1 THEN 10 ELSE 12]

QuantityInputs == {2}

ComboPriceInputs == {0, 40}

VARIABLES
  combosDb,          \* the `combos` collection: sequence of documents, index = id
  formProducts,      \* ComboOrders state: formData.products
  comboPrice,        \* ComboOrders state: formData.comboPrice
  selectedProducts,  \* ComboOrders state: ids of the ticked products
  editingCombo,      \* ComboOrders state: optional id of the combo being edited
  isDialogOpen,      \* ComboOrders state: form dialog open
  saving,            \* ComboOrders state: submit in progress
  comboInflight,     \* addDoc / updateDoc issued and not yet resolved
  comboWrites,       \* number of combo writes issued
  comboToast         \* description of the most recent toast

comboVars ==
  <<combosDb, formProducts, comboPrice, selectedProducts, editingCombo,
    isDialogOpen, saving, comboInflight, comboWrites, comboToast>>

ComboProduct(productId, quantity, price) ==
  [productId |-> productId, quantity |-> quantity, price |-> price]

\* formData.products.reduce((total, p) => total + p.price * p.quantity, 0)
RECURSIVE ReducePrice(_, _)
ReducePrice(total, ps) ==
  IF ps = <<>> THEN total
  ELSE ReducePrice(total + Head(ps).price * Head(ps).quantity, Tail(ps))

RECURSIVE ReducePriceIgnoringQuantity(_, _)
ReducePriceIgnoringQuantity(total, ps) ==
  IF ps = <<>> THEN total
  ELSE ReducePriceIgnoringQuantity(total + Head(ps).price, Tail(ps))

calculateOriginalPriceNoQuantity(ps) == ReducePriceIgnoringQuantity(0, ps)

calculateOriginalPrice(ps) == ReducePrice(0, ps)

calculateSavings(ps, price) == calculateOriginalPrice(ps) - price

\* formData.products.length < 2
TooFewProductsBelowOne(ps) == Len(ps) < 1

TooFewProducts(ps) == Len(ps) < 2

\* The fields handleSubmit writes (for a create and for an update alike).
ComboData(ps, price) ==
  [products |-> ps,
   comboPrice |-> price,
   originalPrice |-> calculateOriginalPrice(ps),
   savings |-> calculateSavings(ps, price)]

\* A write of handleSubmit; seq tells two equal writes apart.
ComboRequest(kind, id, data, seq) ==
  [kind |-> kind, id |-> id, data |-> data, seq |-> seq]

ComboInit ==
  /\ combosDb =
       <<ComboData(<<ComboProduct(1, 2, 10), ComboProduct(2, 2, 12)>>, 40)>>
  /\ formProducts = <<>>
  /\ comboPrice = 0
  /\ selectedProducts = <<>>
  /\ editingCombo = None
  /\ isDialogOpen = FALSE
  /\ saving = FALSE
  /\ comboInflight = {}
  /\ comboWrites = 0
  /\ comboToast = ""

\* The "Create Combo" button and the dialog's Cancel button / onOpenChange.
SetIsDialogOpen(open) ==
  /\ isDialogOpen' = open
  /\ UNCHANGED <<combosDb, formProducts, comboPrice, selectedProducts,
                 editingCombo, saving, comboInflight, comboWrites, comboToast>>

\* handleProductSelection: a product's checkbox; it is checked exactly when
\* the id is in selectedProducts, so a click passes the opposite.
HandleProductSelection(productId, isSelected) ==
  /\ isDialogOpen
  /\ isSelected = (productId \notin Range(selectedProducts))
  /\ IF isSelected
     THEN /\ formProducts' =
               Append(formProducts,
                      ComboProduct(productId, 1, ProductPrice[productId]))
          /\ selectedProducts' = Append(selectedProducts, productId)
     ELSE /\ formProducts' =
               SelectSeq(formProducts, LAMBDA p : p.productId /= productId)
          /\ selectedProducts' =
               SelectSeq(selectedProducts, LAMBDA x : x /= productId)
  /\ UNCHANGED <<combosDb, comboPrice, editingCombo, isDialogOpen, saving,
                 comboInflight, comboWrites, comboToast>>

\* updateProductQuantity: the Qty input of a listed constituent.
UpdateProductQuantity(productId, quantity) ==
  /\ isDialogOpen
  /\ \E i \in DOMAIN formProducts : formProducts[i].productId = productId
  /\ formProducts' =
       [i \in DOMAIN formProducts |->
          IF formProducts[i].productId = productId
          THEN [formProducts[i] EXCEPT !.quantity = quantity]
          ELSE formProducts[i]]
  /\ UNCHANGED <<combosDb, comboPrice, selectedProducts, editingCombo,
                 isDialogOpen, saving, comboInflight, comboWrites, comboToast>>

\* removeProduct: the X button of a listed constituent.
RemoveProduct(productId) ==
  /\ isDialogOpen
  /\ \E i \in DOMAIN formProducts : formProducts[i].productId = productId
  /\ formProducts' =
       SelectSeq(formProducts, LAMBDA p : p.productId /= productId)
  /\ selectedProducts' = SelectSeq(selectedProducts, LAMBDA x : x /= productId)
  /\ UNCHANGED <<combosDb, comboPrice, editingCombo, isDialogOpen, saving,
                 comboInflight, comboWrites, comboToast>>

\* onChange of the combo price input.
SetComboPrice(price) ==
  /\ isDialogOpen
  /\ comboPrice' = price
  /\ UNCHANGED <<combosDb, formProducts, selectedProducts, editingCombo,
                 isDialogOpen, saving, comboInflight, comboWrites, comboToast>>

\* handleEdit: the Edit button of a listed combo.
HandleEdit(id) ==
  /\ ~isDialogOpen
  /\ editingCombo' = Some(id)
  /\ formProducts' = combosDb[id].products
  /\ comboPrice' = combosDb[id].comboPrice
  /\ selectedProducts' =
       [i \in DOMAIN combosDb[id].products |->
          combosDb[id].products[i].productId]
  /\ isDialogOpen' = TRUE
  /\ UNCHANGED <<combosDb, saving, comboInflight, comboWrites, comboToast>>

\* handleSubmit up to its await, or its early return. The submit event of
\* the mounted form is the input; the handler does its own validation.
HandleSubmit ==
  /\ isDialogOpen
  /\ IF TooFewProducts(formProducts)
     THEN /\ comboToast' = "A combo must have at least 2 products"
          /\ saving' = FALSE
          /\ UNCHANGED <<combosDb, formProducts, comboPrice, selectedProducts,
                         editingCombo, isDialogOpen, comboInflight,
                         comboWrites>>
     ELSE /\ comboWrites < MaxComboWrites
          /\ saving' = TRUE
          /\ comboInflight' = comboInflight \cup
               {IF IsSome(editingCombo)
                THEN ComboRequest("update", Get(editingCombo),
                                  ComboData(formProducts, comboPrice),
                                  comboWrites)
                ELSE ComboRequest("add", 0,
                                  ComboData(formProducts, comboPrice),
                                  comboWrites)}
          /\ comboWrites' = comboWrites + 1
          /\ UNCHANGED <<combosDb, formProducts, comboPrice, selectedProducts,
                         editingCombo, isDialogOpen, comboToast>>

\* The await resolves: the document is stored, the dialog closes and
\* resetForm runs; finally saving is cleared.
ComboWriteSucceeds(r) ==
  /\ r \in comboInflight
  /\ combosDb' =
       IF r.kind = "update"
       THEN [combosDb EXCEPT ![r.id] = MergeFields(combosDb[r.id], r.data)]
       ELSE Append(combosDb, r.data)
  /\ comboInflight' = comboInflight \ {r}
  /\ comboToast' =
       IF r.kind = "update" THEN "Combo has been updated successfully"
       ELSE "New combo has been created successfully"
  /\ isDialogOpen' = FALSE
  /\ formProducts' = <<>>
  /\ comboPrice' = 0
  /\ selectedProducts' = <<>>
  /\ editingCombo' = None
  /\ saving' = FALSE
  /\ UNCHANGED comboWrites

ComboWriteFails(r) ==
  /\ r \in comboInflight
  /\ comboInflight' = comboInflight \ {r}
  /\ comboToast' = "Failed to save combo. Please try again."
  /\ saving' = FALSE
  /\ UNCHANGED <<combosDb, formProducts, comboPrice, selectedProducts,
                 editingCombo, isDialogOpen, comboWrites>>

ComboNext ==
  \/ \E b \in BOOLEAN : SetIsDialogOpen(b)
  \/ \E p \in ProductIds, b \in BOOLEAN : HandleProductSelection(p, b)
  \/ \E p \in ProductIds, q \in QuantityInputs : UpdateProductQuantity(p, q)
  \/ \E p \in ProductIds : RemoveProduct(p)
  \/ \E c \in ComboPriceInputs : SetComboPrice(c)
  \/ \E id \in DOMAIN combosDb : HandleEdit(id)
  \/ HandleSubmit
  \/ \E r \in comboInflight : ComboWriteSucceeds(r)
  \/ \E r \in comboInflight : ComboWriteFails(r)

(***************************************************************************)
(* Inventory view and the Dashboard's product metrics                      *)
(***************************************************************************)
InvProductIds == {1, 2, 3}

\* What the admin can type into the stock input of the editor.
StockInputTexts ==
  {[kind |-> "empty", n |-> 0],
   [kind |-> "int", n |-> 1],
   [kind |-> "int", n |-> 10],
   [kind |-> "int", n |-> 11],
   [kind |-> "int", n |-> -1],
   [kind |-> "decimal", n |-> 10]}

\* parseInt(e.target.value) || 0: the integer part of the text, 0 for the
\* empty text (NaN) and for 0.
ParseStockInput(t) ==
  IF t.kind = "empty" THEN 0 ELSE IF t.n = 0 THEN 0 ELSE t.n

VARIABLES
  productsDb,        \* the `products` collection: id -> document
  categoriesDb,      \* the `categories` collection: id -> document
  invProducts,       \* Inventory state: products (the list shown)
  invLoading,        \* Inventory state: loading
  invStats,          \* Inventory state: stats
  editingId,         \* Inventory state: optional id of the row being edited
  editStock,         \* Inventory state: value of the stock input
  invInflight,       \* stock writes issued and not yet resolved
  stockWrites,       \* number of stock writes issued
  invAlerts,         \* number of alert() dialogs the Inventory view has shown
  lastStockWrite,    \* history: the stock write most recently applied
  peerProducts,      \* second admin session, Inventory state: products
  peerLoading,       \* second admin session, Inventory state: loading
  peerStats,         \* second admin session, Inventory state: stats
  peerEditingId,     \* second admin session, Inventory state: editingId
  peerEditStock,     \* second admin session, Inventory state: editStock
  peerInflight,      \* second admin session: stock writes not yet resolved
  peerWrites,        \* second admin session: number of stock writes issued
  peerAlerts,        \* second admin session: number of alerts shown
  lowStockProducts,  \* Dashboard state: optional stats.lowStockProducts
  today,             \* the day `new Date()` falls on (days since 2023-01-01)
  dashStats,         \* Dashboard state: optional revenue / order stats
  weeklyData,        \* Dashboard state: weeklyData
  monthlyData,       \* Dashboard state: monthlyData
  timeRange,         \* Analytics state: timeRange
  analyticsData      \* Analytics state: optional analyticsData

storeVars == <<productsDb, categoriesDb>>

dashVars == <<lowStockProducts, today, dashStats, weeklyData, monthlyData>>

analyticsVars == <<timeRange, analyticsData>>

invViewVars ==
  <<invProducts, invLoading, invStats, editingId, editStock, invInflight,
    stockWrites, invAlerts, lastStockWrite>>

peerVars ==
  <<peerProducts, peerLoading, peerStats, peerEditingId, peerEditStock,
    peerInflight, peerWrites, peerAlerts>>

invVars == <<storeVars, invViewVars, peerVars, dashVars, analyticsVars>>

\* A product document; salePrice 0 stands for the absent (null) sale price,
\* categoryId 0 for the empty category reference.
ProductDoc(stock, price, salePrice, serialNo, createdAt, categoryId) ==
  [stock |-> stock, price |-> price, salePrice |-> salePrice,
   serialNo |-> serialNo, createdAt |-> createdAt, categoryId |-> categoryId]

CategoryDoc(name, serialNo, createdAt) ==
  [name |-> name, serialNo |-> serialNo, createdAt |-> createdAt]

\* { id: doc.id, ...doc.data(), categoryName }
ProductRow(id, document, categoryName) ==
  [id |-> id, stock |-> document.stock, price |-> document.price,
   salePrice |-> document.salePrice, serialNo |-> document.serialNo,
   createdAt |-> document.createdAt, categoryId |-> document.categoryId,
   categoryName |-> categoryName]

\* A lookup without the fallback: an unmatched category gives no label.
CategoryNameOrEmpty(categoryId, cats) ==
  IF categoryId \in DOMAIN cats THEN cats[categoryId].name ELSE ""

\* categoriesMap.get(product.categoryId) || 'Unknown' and
\* categoriesData.find(c => c.id === data.categoryId)?.name || 'Unknown'
CategoryNameOf(categoryId, cats) ==
  IF categoryId \in DOMAIN cats /\ cats[categoryId].name /= ""
  THEN cats[categoryId].name
  ELSE "Unknown"

RECURSIVE AscIds(_)
AscIds(S) ==
  IF S = {} THEN <<>>
  ELSE LET m == CHOOSE x \in S : \A y \in S : x <= y
       IN <<m>> \o AscIds(S \ {m})

\* (b.createdAt?.toMillis?.() || 0) - (a.createdAt?.toMillis?.() || 0)
CompareCreatedAt(a, b) == b.createdAt - a.createdAt

\* A comparator that reads a null serial as 0 (serialNo || 0).
CompareSerialNullAsZero(a, b) ==
  LET aSerial == IF a.serialNo = None THEN 0 ELSE Get(a.serialNo)
      bSerial == IF b.serialNo = None THEN 0 ELSE Get(b.serialNo)
  IN IF aSerial /= bSerial THEN aSerial - bSerial ELSE CompareCreatedAt(a, b)

\* The comparator of the Categories and Products listings:
\*   aSerial = a.serialNo ?? Infinity; bSerial = b.serialNo ?? Infinity;
\*   if (aSerial !== bSerial) return aSerial - bSerial;
\*   return createdAt of b - createdAt of a
\* Infinity - n is positive, n - Infinity negative, Infinity === Infinity.
CompareSerial(a, b) ==
  IF a.serialNo = None /\ b.serialNo = None THEN CompareCreatedAt(a, b)
  ELSE IF a.serialNo = None THEN 1
  ELSE IF b.serialNo = None THEN -1
  ELSE IF Get(a.serialNo) /= Get(b.serialNo)
       THEN Get(a.serialNo) - Get(b.serialNo)
  ELSE CompareCreatedAt(a, b)

\* The comparator of Inventory.fetchData.
CompareInventory(a, b) ==
  IF a.serialNo = None /\ b.serialNo = None THEN 0
  ELSE IF a.serialNo = None THEN 1
  ELSE IF b.serialNo = None THEN -1
  ELSE Get(a.serialNo) - Get(b.serialNo)

Compare(view, a, b) ==
  IF view = "inventory" THEN CompareInventory(a, b) ELSE CompareSerial(a, b)

\* Array.prototype.sort is stable: an element goes behind every element
\* that does not compare greater than it.
RECURSIVE InsertSorted(_, _, _)
InsertSorted(view, x, sorted) ==
  IF sorted = <<>> THEN <<x>>
  ELSE IF Compare(view, x, Head(sorted)) < 0 THEN <<x>> \o sorted
  ELSE <<Head(sorted)>> \o InsertSorted(view, x, Tail(sorted))

RECURSIVE Sort(_, _)
Sort(view, rows) ==
  IF rows = <<>> THEN <<>>
  ELSE InsertSorted(view, rows[Len(rows)],
                    Sort(view, SubSeq(rows, 1, Len(rows) - 1)))

\* getDocs(collection(db, 'products')) mapped to rows, in document-id order.
ProductDocs(cats) ==
  LET ids == AscIds(DOMAIN productsDb)
  IN [i \in DOMAIN ids |->
        ProductRow(ids[i], productsDb[ids[i]],
                   CategoryNameOf(productsDb[ids[i]].categoryId, cats))]

\* The list fetchData builds: the rows with their category names, sorted.
FetchedProducts == Sort("inventory", ProductDocs(categoriesDb))

\* p.stock > 0 && p.stock <= 10
IsLowStock(p) == p.stock > 0 /\ p.stock <= 10

\* p.stock === 0
IsOutOfStock(p) == p.stock = 0

\* products.reduce((sum, p) => sum + p.stock, 0)
RECURSIVE ReduceUnits(_, _)
ReduceUnits(sum, ps) ==
  IF ps = <<>> THEN sum ELSE ReduceUnits(sum + Head(ps).stock, Tail(ps))

\* products.reduce((sum, p) => sum + (p.salePrice || p.price) * p.stock, 0)
RECURSIVE ReduceStockValue(_, _)
ReduceStockValue(sum, ps) ==
  IF ps = <<>> THEN sum
  ELSE LET p == Head(ps)
           price == IF p.salePrice /= 0 THEN p.salePrice ELSE p.price
       IN ReduceStockValue(sum + price * p.stock, Tail(ps))

\* calculateStats
calculateStats(ps) ==
  [totalProducts |-> Len(ps),
   totalUnits |-> ReduceUnits(0, ps),
   totalStockValue |-> ReduceStockValue(0, ps),
   lowStockCount |-> Cardinality({i \in DOMAIN ps : IsLowStock(ps[i])}),
   outOfStockCount |-> Cardinality({i \in DOMAIN ps : IsOutOfStock(ps[i])})]

\* getStockStatus(stock).label
getStockStatusStrict(stock) ==
  IF stock = 0 THEN "Out of Stock"
  ELSE IF stock < 10 THEN "Low Stock"
  ELSE "In Stock"

getStockStatus(stock) ==
  IF stock = 0 THEN "Out of Stock"
  ELSE IF stock <= 10 THEN "Low Stock"
  ELSE "In Stock"

\* matchesStock of filteredProducts, for a value of the stock filter.
MatchesStock(filterStock, p) ==
  \/ filterStock = "all"
  \/ filterStock = "out" /\ p.stock = 0
  \/ filterStock = "low" /\ p.stock > 0 /\ p.stock <= 10
  \/ filterStock = "in" /\ p.stock > 10

\* The Status badge of each row of the Inventory table.
StatusLabels == [i \in DOMAIN invProducts |-> getStockStatus(invProducts[i].stock)]

\* Dashboard: products.filter(product => (product.stock || 0) < 10).length
\* (every stock of the model is a number, so stock || 0 is the stock).
DashboardLowStock(ps) == Cardinality({i \in DOMAIN ps : ps[i].stock < 10})

\* A write of handleSaveStock; seq tells two equal writes apart.
StockRequest(id, stock, products, seq) ==
  [id |-> id, stock |-> stock, products |-> products, seq |-> seq]

\* No stock write has been applied to the store yet.
NoStockWrite == [by |-> "", id |-> 0, stock |-> 0, raced |-> FALSE]

InvInit ==
  /\ productsDb = (1 :> ProductDoc(0, 100, 0, None, 1, 1)
                   @@ 2 :> ProductDoc(10, 50, 40, None, 2, 3))
  /\ categoriesDb = (1 :> CategoryDoc("Floor", Some(3), 1)
                     @@ 2 :> CategoryDoc("Glass", None, 2)
                     @@ 3 :> CategoryDoc("Kitchen", Some(1), 3))
  /\ invProducts = <<>>
  /\ invLoading = TRUE
  /\ invStats = calculateStats(<<>>)
  /\ editingId = None
  /\ editStock = 0
  /\ invInflight = {}
  /\ stockWrites = 0
  /\ invAlerts = 0
  /\ lastStockWrite = NoStockWrite
  /\ lowStockProducts = None

\* fetchData from the Refresh button, up to its first await.
FetchDataStart ==
  /\ ~invLoading
  /\ invLoading' = TRUE
  /\ UNCHANGED <<storeVars, invProducts, invStats, editingId, editStock,
                 invInflight, stockWrites, invAlerts,
                 lastStockWrite, dashVars>>

\* fetchData after its awaits: the rows replace the list, the effect on
\* [products] recomputes the stats, finally loading is cleared.
FetchDataSucceeds ==
  /\ invLoading
  /\ invProducts' = FetchedProducts
  /\ invStats' = calculateStats(FetchedProducts)
  /\ invLoading' = FALSE
  /\ UNCHANGED <<storeVars, editingId, editStock, invInflight, stockWrites,
                 invAlerts,
                 lastStockWrite, dashVars>>

FetchDataFails ==
  /\ invLoading
  /\ invLoading' = FALSE
  /\ UNCHANGED <<storeVars, invProducts, invStats, editingId, editStock,
                 invInflight, stockWrites, invAlerts,
                 lastStockWrite, dashVars>>

\* handleEditStock: the Edit button of a row that is not being edited.
HandleEditStock(i) ==
  /\ ~invLoading
  /\ editingId /= Some(invProducts[i].id)
  /\ editingId' = Some(invProducts[i].id)
  /\ editStock' = invProducts[i].stock
  /\ UNCHANGED <<storeVars, invProducts, invLoading, invStats, invInflight,
                 stockWrites, invAlerts,
                 lastStockWrite, dashVars>>

\* onChange of the stock input of the row being edited.
SetEditStock(t) ==
  /\ ~invLoading
  /\ \E i \in DOMAIN invProducts : editingId = Some(invProducts[i].id)
  /\ editStock' = ParseStockInput(t)
  /\ UNCHANGED <<storeVars, invProducts, invLoading, invStats, editingId,
                 invInflight, stockWrites, invAlerts,
                 lastStockWrite, dashVars>>

\* handleCancelEdit
HandleCancelEdit ==
  /\ ~invLoading
  /\ \E i \in DOMAIN invProducts : editingId = Some(invProducts[i].id)
  /\ editingId' = None
  /\ editStock' = 0
  /\ UNCHANGED <<storeVars, invProducts, invLoading, invStats, invInflight,
                 stockWrites, invAlerts,
                 lastStockWrite, dashVars>>

\* handleSaveStock up to its await: the Save button of the row being edited.
\* The handler keeps the products list of the render it was created in.
HandleSaveStock(i) ==
  /\ ~invLoading
  /\ editingId = Some(invProducts[i].id)
  /\ invInflight' = invInflight \cup
       {StockRequest(invProducts[i].id, editStock, invProducts,
                     stockWrites)}
  /\ stockWrites' = stockWrites + 1
  /\ UNCHANGED <<storeVars, invProducts, invLoading, invStats, editingId,
                 editStock, invAlerts,
                 lastStockWrite, dashVars>>

\* updateDoc(productRef, { stock }) that leaves the document alone when its
\* stock is no longer the one the writer's list shows.
UpdateStockIfUnchanged(db, r) ==
  IF \E i \in DOMAIN r.products :
       r.products[i].id = r.id /\ r.products[i].stock = db[r.id].stock
  THEN [db EXCEPT ![r.id].stock = r.stock]
  ELSE db

\* updateDoc(productRef, { stock: editStock, updatedAt })
UpdateStock(db, r) == [db EXCEPT ![r.id].stock = r.stock]

\* History of the stock write most recently applied: who wrote which stock
\* to which product, and whether it met a write of the other session to the
\* same product (in flight when it was applied, or applied just before while
\* it was in flight).

AppliedStockWrite(by, r, others) ==
  [by |-> by, id |-> r.id, stock |-> r.stock,
   raced |-> \/ \E o \in others : o.id = r.id
             \/ /\ lastStockWrite.by \notin {"", by}
                /\ lastStockWrite.id = r.id
                /\ lastStockWrite.raced]

\* The await resolves: the field is stored, the captured list is mapped to
\* the new stock, the effect recomputes the stats and the editor closes.
StockWriteSucceeds(r) ==
  /\ r \in invInflight
  /\ r.id \in DOMAIN productsDb
  /\ productsDb' = UpdateStock(productsDb, r)
  /\ UNCHANGED categoriesDb
  /\ LET mapped == [i \in DOMAIN r.products |->
                      IF r.products[i].id = r.id
                      THEN [r.products[i] EXCEPT !.stock = r.stock]
                      ELSE r.products[i]]
     IN /\ invProducts' = mapped
        /\ invStats' = calculateStats(mapped)
  /\ editingId' = None
  /\ editStock' = 0
  /\ invInflight' = invInflight \ {r}
  /\ lastStockWrite' = AppliedStockWrite("admin", r, peerInflight)
  /\ UNCHANGED <<invLoading, stockWrites, invAlerts, dashVars>>

\* A catch block that also maps the list to the stock that was not stored.
StockWriteFailsKeepingMutation(r) ==
  /\ r \in invInflight
  /\ invInflight' = invInflight \ {r}
  /\ invAlerts' = invAlerts + 1
  /\ LET mapped == [i \in DOMAIN r.products |->
                      IF r.products[i].id = r.id
                      THEN [r.products[i] EXCEPT !.stock = r.stock]
                      ELSE r.products[i]]
     IN /\ invProducts' = mapped
        /\ invStats' = calculateStats(mapped)
  /\ UNCHANGED <<storeVars, invLoading, editingId, editStock, stockWrites,
                 lastStockWrite, dashVars>>

\* The await rejects: the catch block logs the error and shows one alert.
StockWriteFails(r) ==
  /\ r \in invInflight
  /\ invInflight' = invInflight \ {r}
  /\ invAlerts' = invAlerts + 1
  /\ UNCHANGED <<storeVars, invProducts, invLoading, invStats, editingId,
                 editStock, stockWrites, lastStockWrite, dashVars>>

(***************************************************************************)
(* A second admin session with the Inventory view open on the same store   *)
(***************************************************************************)
\* What the two admins type when they edit concurrently: different stocks.
AdminStockInputs == {[kind |-> "int", n |-> 11]}
PeerStockInputs == {[kind |-> "int", n |-> 1]}

PeerInit ==
  /\ peerProducts = <<>>
  /\ peerLoading = TRUE
  /\ peerStats = calculateStats(<<>>)
  /\ peerEditingId = None
  /\ peerEditStock = 0
  /\ peerInflight = {}
  /\ peerWrites = 0
  /\ peerAlerts = 0

\* fetchData of the second session after its awaits.
PeerFetchDataSucceeds ==
  /\ peerLoading
  /\ peerProducts' = FetchedProducts
  /\ peerStats' = calculateStats(FetchedProducts)
  /\ peerLoading' = FALSE
  /\ UNCHANGED <<storeVars, invViewVars, dashVars, peerEditingId,
                 peerEditStock, peerInflight, peerWrites, peerAlerts>>

\* handleEditStock of the second session.
PeerHandleEditStock(i) ==
  /\ ~peerLoading
  /\ peerEditingId /= Some(peerProducts[i].id)
  /\ peerEditingId' = Some(peerProducts[i].id)
  /\ peerEditStock' = peerProducts[i].stock
  /\ UNCHANGED <<storeVars, invViewVars, dashVars, peerProducts, peerLoading,
                 peerStats, peerInflight, peerWrites, peerAlerts>>

\* onChange of the stock input of the second session.
PeerSetEditStock(t) ==
  /\ ~peerLoading
  /\ \E i \in DOMAIN peerProducts : peerEditingId = Some(peerProducts[i].id)
  /\ peerEditStock' = ParseStockInput(t)
  /\ UNCHANGED <<storeVars, invViewVars, dashVars, peerProducts, peerLoading,
                 peerStats, peerEditingId, peerInflight, peerWrites,
                 peerAlerts>>

\* handleSaveStock of the second session, up to its await.
PeerHandleSaveStock(i) ==
  /\ ~peerLoading
  /\ peerEditingId = Some(peerProducts[i].id)
  /\ peerWrites < MaxPeerWrites
  /\ peerInflight' = peerInflight \cup
       {StockRequest(peerProducts[i].id, peerEditStock, peerProducts,
                     peerWrites)}
  /\ peerWrites' = peerWrites + 1
  /\ UNCHANGED <<storeVars, invViewVars, dashVars, peerProducts, peerLoading,
                 peerStats, peerEditingId, peerEditStock, peerAlerts>>

\* The await of the second session resolves.
PeerStockWriteSucceeds(r) ==
  /\ r \in peerInflight
  /\ r.id \in DOMAIN productsDb
  /\ productsDb' = UpdateStock(productsDb, r)
  /\ UNCHANGED categoriesDb
  /\ LET mapped == [i \in DOMAIN r.products |->
                      IF r.products[i].id = r.id
                      THEN [r.products[i] EXCEPT !.stock = r.stock]
                      ELSE r.products[i]]
     IN /\ peerProducts' = mapped
        /\ peerStats' = calculateStats(mapped)
  /\ peerEditingId' = None
  /\ peerEditStock' = 0
  /\ peerInflight' = peerInflight \ {r}
  /\ lastStockWrite' = AppliedStockWrite("peer", r, invInflight)
  /\ UNCHANGED <<invProducts, invLoading, invStats, editingId, editStock,
                 invInflight, stockWrites, invAlerts, dashVars, peerLoading,
                 peerWrites, peerAlerts>>

\* The await of the second session rejects.
PeerStockWriteFails(r) ==
  /\ r \in peerInflight
  /\ peerInflight' = peerInflight \ {r}
  /\ peerAlerts' = peerAlerts + 1
  /\ UNCHANGED <<storeVars, invViewVars, dashVars, peerProducts, peerLoading,
                 peerStats, peerEditingId, peerEditStock, peerWrites>>

\* The product whose stock both sessions edit.
ContendedProduct == 1

\* Both sessions load the list and edit the stock of the contended product;
\* each issues at most MaxPeerWrites writes.
TwoAdminsNext ==
  \/ FetchDataSucceeds /\ UNCHANGED peerVars
  \/ \E i \in DOMAIN invProducts :
       /\ invProducts[i].id = ContendedProduct
       /\ HandleEditStock(i) /\ UNCHANGED peerVars
  \/ \E t \in AdminStockInputs : SetEditStock(t) /\ UNCHANGED peerVars
  \/ \E i \in DOMAIN invProducts :
       /\ stockWrites < MaxPeerWrites
       /\ HandleSaveStock(i) /\ UNCHANGED peerVars
  \/ \E r \in invInflight : StockWriteSucceeds(r) /\ UNCHANGED peerVars
  \/ \E r \in invInflight : StockWriteFails(r) /\ UNCHANGED peerVars
  \/ PeerFetchDataSucceeds
  \/ \E i \in DOMAIN peerProducts :
       peerProducts[i].id = ContendedProduct /\ PeerHandleEditStock(i)
  \/ \E t \in PeerStockInputs : PeerSetEditStock(t)
  \/ \E i \in DOMAIN peerProducts : PeerHandleSaveStock(i)
  \/ \E r \in peerInflight : PeerStockWriteSucceeds(r)
  \/ \E r \in peerInflight : PeerStockWriteFails(r)

(***************************************************************************)
(* Dashboard and Analytics: the derived metrics                            *)
(***************************************************************************)
\* A JavaScript number that is the quotient of two integers: a fraction in
\* lowest terms with den > 0, or, with den = 0, what a division by zero
\* gives: NaN (num 0), Infinity (num 1), -Infinity (num -1).
Abs(a) == IF a < 0 THEN -a ELSE a

Sign(a) == IF a > 0 THEN 1 ELSE IF a < 0 THEN -1 ELSE 0

RECURSIVE Gcd(_, _)
Gcd(a, b) == IF b = 0 THEN a ELSE Gcd(b, a % b)

\* a / b
Divide(a, b) ==
  IF b = 0 THEN [num |-> Sign(a), den |-> 0]
  ELSE LET g == Gcd(Abs(a), Abs(b))
       IN [num |-> (Sign(b) * a) \div g, den |-> Abs(b) \div g]

Zero == Divide(0, 1)

\* q * k for an integer k > 0
Times(q, k) == IF q.den = 0 THEN q ELSE Divide(q.num * k, q.den)

\* Math.round(q) of a finite q: the nearest integer, halves upwards.
Round(q) == (2 * q.num + q.den) \div (2 * q.den)

\* Calendar of the Date object; months count from 0, days are numbered from
\* 2023-01-01 (day 0, a Sunday).
IsLeap(y) == y % 4 = 0 /\ (y % 100 /= 0 \/ y % 400 = 0)

DaysInYear(y) == IF IsLeap(y) THEN 366 ELSE 365

DaysInMonth(y, m) ==
  IF m = 1 THEN (IF IsLeap(y) THEN 29 ELSE 28)
  ELSE IF m \in {3, 5, 8, 10} THEN 30
  ELSE 31

RECURSIVE DaysBeforeYear(_)
DaysBeforeYear(y) ==
  IF y = 2023 THEN 0
  ELSE IF y > 2023 THEN DaysBeforeYear(y - 1) + DaysInYear(y - 1)
  ELSE DaysBeforeYear(y + 1) - DaysInYear(y)

\* The days of year y before its month m: the lengths of the months 0..m-1.
DaysBeforeMonth(y, m) ==
  <<0, 31, 59, 90, 120, 151, 181, 212, 243, 273, 304, 334>>[m + 1]
  + (IF m > 1 /\ IsLeap(y) THEN 1 ELSE 0)

\* The day that year y, month m, date d denote; a month outside 0..11 and a
\* date outside the month carry over, as setMonth and setDate make them.
MakeDay(y, m, d) ==
  LET year == y + (m \div 12)
      month == m % 12
  IN DaysBeforeYear(year) + DaysBeforeMonth(year, month) + d - 1

RECURSIVE YearOf(_, _)
YearOf(day, y) ==
  IF day < DaysBeforeYear(y) THEN YearOf(day, y - 1)
  ELSE IF day >= DaysBeforeYear(y + 1) THEN YearOf(day, y + 1)
  ELSE y

\* The month of year y that its n-th day (n from 0) falls in, from m on.
RECURSIVE MonthOf(_, _, _)
MonthOf(n, y, m) ==
  IF m < 11 /\ n >= DaysBeforeMonth(y, m + 1) THEN MonthOf(n, y, m + 1)
  ELSE m

\* getFullYear(), getMonth(), getDate() of a day
DateOf(day) ==
  LET y == YearOf(day, 2023)
      n == day - DaysBeforeYear(y)
      m == MonthOf(n, y, 0)
  IN [year |-> y, month |-> m, date |-> n - DaysBeforeMonth(y, m) + 1]

\* date.setMonth(date.getMonth() - k)
MonthsBefore(day, k) ==
  LET d == DateOf(day) IN MakeDay(d.year, d.month - k, d.date)

\* getDocs(collection(db, 'orders')) mapped to orders, in document-id order.
FetchedOrders ==
  LET ids == AscIds({id \in OrderIds : IsSome(ordersDb[id])})
  IN [i \in DOMAIN ids |-> Get(ordersDb[ids[i]])]

\* orders.reduce((sum, order) => sum + (order.pricing?.finalTotal || 0), 0)
RECURSIVE ReduceRevenue(_, _)
ReduceRevenue(sum, orders) ==
  IF orders = <<>> THEN sum
  ELSE ReduceRevenue(sum + Head(orders).pricing.finalTotal, Tail(orders))

\* The sum of finalTotal - subtotal * tenths / 10, in tenths.
RECURSIVE ReduceProfitTenths(_, _, _)
ReduceProfitTenths(sum, orders, tenths) ==
  IF orders = <<>> THEN sum
  ELSE ReduceProfitTenths(sum + 10 * Head(orders).pricing.finalTotal
                              - tenths * Head(orders).pricing.subtotal,
                          Tail(orders), tenths)

\* The average order value without the test of the order count.
avgOrderValueUnguarded(totalRevenue, count) == Divide(totalRevenue, count)

\* orders.length > 0 ? totalRevenue / orders.length : 0
avgOrderValue(totalRevenue, count) ==
  IF count > 0 THEN Divide(totalRevenue, count) ELSE Zero

\* orders.filter(...) for a sequence: the orders created on one of `days`.
RECURSIVE OrdersCreatedIn(_, _)
OrdersCreatedIn(orders, days) ==
  IF orders = <<>> THEN <<>>
  ELSE (IF Head(orders).createdAt \in days THEN <<Head(orders)>> ELSE <<>>)
       \o OrdersCreatedIn(Tail(orders), days)

\* Array.from({ length: 7 }, (_, i) => today - (6 - i) days)
last7Days(now) == [i \in 1..7 |-> now - (7 - i)]

\* Array.from({ length: 6 }, (_, i) => today with setMonth(month - (5 - i)))
last6Months(now) == [i \in 1..6 |-> MonthsBefore(now, 6 - i)]

\* The days of the month a day falls in.
DaysOfMonthOf(day) ==
  LET d == DateOf(day)
      first == MakeDay(d.year, d.month, 1)
  IN first .. (first + DaysInMonth(d.year, d.month) - 1)

\* A weekly series that keeps only the days on which an order was created.
weeklyStatsSparse(orders, now) ==
  LET days == last7Days(now)
      all == [i \in DOMAIN days |->
                LET dayOrders == OrdersCreatedIn(orders, {days[i]})
                IN [day |-> days[i] % 7,
                    revenue |-> ReduceRevenue(0, dayOrders),
                    orders |-> Len(dayOrders)]]
      NonEmpty(bucket) == bucket.orders > 0
  IN SelectSeq(all, NonEmpty)

\* last7Days.map(date => ({day, revenue: Math.round(revenue), orders}))
weeklyStats(orders, now) ==
  LET days == last7Days(now)
  IN [i \in DOMAIN days |->
        LET dayOrders == OrdersCreatedIn(orders, {days[i]})
        IN [day |-> days[i] % 7,
            revenue |-> ReduceRevenue(0, dayOrders),
            orders |-> Len(dayOrders)]]

monthlyStats(orders, now) ==
  LET months == last6Months(now)
  IN [i \in DOMAIN months |->
        LET monthOrders == OrdersCreatedIn(orders, DaysOfMonthOf(months[i]))
        IN [month |-> DateOf(months[i]).month,
            revenue |-> ReduceRevenue(0, monthOrders),
            profit |-> Round(Divide(ReduceProfitTenths(0, monthOrders, 6),
                                    10)),
            orders |-> Len(monthOrders)]]

\* The stats fetchDashboardStats derives from the orders.
DashboardStats(orders) ==
  LET totalRevenue == ReduceRevenue(0, orders)
  IN [totalOrders |-> Len(orders),
      totalRevenue |-> totalRevenue,
      totalProfit |-> Divide(ReduceProfitTenths(0, orders, 8), 10),
      avgOrderValue |-> avgOrderValue(totalRevenue, Len(orders)),
      newCustomers |->
        Cardinality({i \in DOMAIN orders :
                       /\ "flags" \in DOMAIN orders[i]
                       /\ orders[i].flags.isNewCustomer}),
      pendingOrders |->
        Cardinality({i \in DOMAIN orders :
                       orders[i].status \in {"pending", "processing"}}),
      totalProducts |-> Cardinality(DOMAIN productsDb),
      totalCategories |-> Cardinality(DOMAIN categoriesDb),
      statusCounts |->
        [st \in {orders[i].status : i \in DOMAIN orders} |->
           Cardinality({i \in DOMAIN orders : orders[i].status = st})]]

DashInit ==
  /\ today = 500
  /\ dashStats = None
  /\ weeklyData = <<>>
  /\ monthlyData = <<>>

\* Dashboard.fetchDashboardStats with its three reads answered: the stats
\* and both series are derived and shown.
FetchDashboardStats ==
  /\ lowStockProducts' = Some(DashboardLowStock(FetchedProducts))
  /\ dashStats' = Some(DashboardStats(FetchedOrders))
  /\ weeklyData' = weeklyStats(FetchedOrders, today)
  /\ monthlyData' = monthlyStats(FetchedOrders, today)
  /\ UNCHANGED <<storeVars, invProducts, invLoading, invStats, editingId,
                 editStock, invInflight, stockWrites, invAlerts,
                 lastStockWrite, today>>

\* Analytics: the periods of fetchAnalyticsData.  Instants are counted in
\* days; every order is created at the time of day the view is opened at.
TimeRanges == {"7days", "30days", "1year"}

\* startDate: endDate moved back by the time range.
StartDate(range, endDate) ==
  CASE range = "7days" -> endDate - 7
    [] range = "30days" -> endDate - 30
    [] range = "90days" -> endDate - 90
    [] range = "1year" ->
         LET d == DateOf(endDate) IN MakeDay(d.year - 1, d.month, d.date)
    [] OTHER -> endDate - 30

\* previousPeriodStart: startDate moved back by daysDiff days.
PreviousPeriodStart(range, endDate) ==
  LET startDate == StartDate(range, endDate)
      daysDiff == endDate - startDate
  IN startDate - daysDiff

\* where('createdAt', '>=', startDate), where('createdAt', '<=', endDate)
CurrentOrders(range, endDate) ==
  OrdersCreatedIn(FetchedOrders, StartDate(range, endDate) .. endDate)

\* where('createdAt', '>=', previousPeriodStart),
\* where('createdAt', '<', startDate)
PreviousOrders(range, endDate) ==
  OrdersCreatedIn(FetchedOrders,
                  PreviousPeriodStart(range, endDate)
                    .. (StartDate(range, endDate) - 1))

\* orders.filter(order => order.paymentStatus === 'paid')
\*       .reduce((sum, order) => sum + order.totalAmount, 0)
\* An order of the present schema has no paymentStatus; a paid order of the
\* legacy schema has a totalAmount.
RECURSIVE ReducePaidAmount(_, _)
ReducePaidAmount(sum, orders) ==
  IF orders = <<>> THEN sum
  ELSE LET order == Head(orders)
           paid == /\ "paymentStatus" \in DOMAIN order
                   /\ order.paymentStatus = "paid"
       IN ReducePaidAmount(IF paid THEN sum + order.totalAmount ELSE sum,
                           Tail(orders))

\* The growth without the test of the previous value.
GrowthUnguarded(current, previous) ==
  Times(Divide(current - previous, previous), 100)

\* previous > 0 ? ((current - previous) / previous) * 100 : 0
Growth(current, previous) ==
  IF previous > 0 THEN Times(Divide(current - previous, previous), 100)
  ELSE Zero

\* The figures fetchAnalyticsData derives from the orders of both periods.
AnalyticsData(orders, previousOrders) ==
  LET totalRevenue == ReducePaidAmount(0, orders)
      totalOrders == Len(orders)
      previousRevenue == ReducePaidAmount(0, previousOrders)
      previousOrderCount == Len(previousOrders)
  IN [totalRevenue |-> totalRevenue,
      totalOrders |-> totalOrders,
      totalProducts |-> Cardinality(DOMAIN productsDb),
      revenueGrowth |-> Growth(totalRevenue, previousRevenue),
      ordersGrowth |-> Growth(totalOrders, previousOrderCount),
      avgOrderValue |-> avgOrderValue(totalRevenue, totalOrders)]

AnalyticsInit ==
  /\ timeRange = "30days"
  /\ analyticsData = None

\* The time range Select; the effect on [timeRange] fetches again.
SetTimeRange(range) ==
  /\ range /= timeRange
  /\ timeRange' = range
  /\ UNCHANGED <<storeVars, invViewVars, dashVars, analyticsData>>

\* fetchAnalyticsData with its reads answered.
FetchAnalyticsData ==
  /\ analyticsData' = Some(AnalyticsData(CurrentOrders(timeRange, today),
                                          PreviousOrders(timeRange, today)))
  /\ UNCHANGED <<storeVars, invViewVars, dashVars, timeRange>>

\* The orders the metrics are computed from: an order of the storefront
\* created on `day`, of the legacy schema when `legacy` holds.
MetricsOrder(id, day, legacy, paid) ==
  LET order == [NewOrder(id) EXCEPT !.createdAt = day]
  IN IF legacy
     THEN order @@ [paymentStatus |-> IF paid THEN "paid" ELSE "pending",
                    totalAmount |-> order.pricing.finalTotal]
     ELSE order

\* How long before today the orders of the metrics were created.
OrderAges == {0, 6, 8, 45}

MetricsDays == {500, 455}

MetricsOrdersOf(id, now) ==
  {None} \cup {Some(MetricsOrder(id, now - age, legacy, paid)) :
                 age \in OrderAges, legacy \in BOOLEAN, paid \in BOOLEAN}

MetricsOrders(now) ==
  {db \in [OrderIds -> UNION {MetricsOrdersOf(id, now) : id \in OrderIds}] :
     \A id \in OrderIds : db[id] \in MetricsOrdersOf(id, now)}

MetricsNext ==
  \/ FetchDashboardStats /\ UNCHANGED analyticsVars
  \/ \E range \in TimeRanges : SetTimeRange(range)
  \/ FetchAnalyticsData

InventoryNext ==
  \/ FetchDataStart
  \/ FetchDataSucceeds
  \/ FetchDataFails
  \/ \E i \in DOMAIN invProducts : HandleEditStock(i)
  \/ \E t \in StockInputTexts : SetEditStock(t)
  \/ HandleCancelEdit
  \/ \E i \in DOMAIN invProducts :
       stockWrites < MaxStockWrites /\ HandleSaveStock(i)
  \/ \E r \in invInflight : StockWriteSucceeds(r)
  \/ \E r \in invInflight : StockWriteFails(r)
  \/ FetchDashboardStats

\* What the admin types while another save is still in flight.
RaceStockInputs == {[kind |-> "int", n |-> 1], [kind |-> "int", n |-> 11]}

\* One session of the Inventory view in which a row can be edited and saved,
\* or the list refreshed, before an earlier save has resolved.
StockRaceNext ==
  \/ FetchDataStart
  \/ FetchDataSucceeds
  \/ \E i \in DOMAIN invProducts : HandleEditStock(i)
  \/ \E t \in RaceStockInputs : SetEditStock(t)
  \/ HandleCancelEdit
  \/ \E i \in DOMAIN invProducts :
       stockWrites < MaxRaceWrites /\ HandleSaveStock(i)
  \/ \E r \in invInflight : StockWriteSucceeds(r)
  \/ \E r \in invInflight : StockWriteFails(r)

(***************************************************************************)
(* Categories and Products views: the listings and the writes that change  *)
(* their order                                                             *)
(***************************************************************************)
CategoryIds == {1, 2, 3, 4}

\* The serial-number input of both forms: e.target.value === '' ? null :
\* Number(e.target.value).
SerialInputs == {None, Some(0), Some(3)}

VARIABLES
  categories,        \* Categories state: categories (the list shown)
  products,          \* Products state: products (the list shown)
  productsPending,   \* Products: snapshots whose category fetch is pending
  listInflight,      \* category / product writes issued and not yet resolved
  listWrites,        \* number of category / product writes issued
  listClock          \* the time `new Date()` returns

listVars ==
  <<categories, products, productsPending, listInflight, listWrites,
    listClock>>

CategoryRow(id, document) ==
  [id |-> id, name |-> document.name, serialNo |-> document.serialNo,
   createdAt |-> document.createdAt]

\* query(collection, orderBy('createdAt', 'desc')): the ids of a collection,
\* latest first.
RECURSIVE DescByCreatedAt(_, _)
DescByCreatedAt(coll, ids) ==
  IF ids = {} THEN <<>>
  ELSE LET m == CHOOSE x \in ids :
                  \A y \in ids :
                    \/ coll[x].createdAt > coll[y].createdAt
                    \/ coll[x].createdAt = coll[y].createdAt /\ x >= y
       IN <<m>> \o DescByCreatedAt(coll, ids \ {m})

\* snapshot.docs.map(doc => ({ id: doc.id, ...doc.data() })) of categories
CategoriesSnapshot ==
  LET ids == DescByCreatedAt(categoriesDb, DOMAIN categoriesDb)
  IN [i \in DOMAIN ids |-> CategoryRow(ids[i], categoriesDb[ids[i]])]

\* The same for products; the category names are not known yet.
ProductsSnapshot ==
  LET ids == DescByCreatedAt(productsDb, DOMAIN productsDb)
  IN [i \in DOMAIN ids |-> ProductRow(ids[i], productsDb[ids[i]], "")]

\* productsData.map(product => ({...product, categoryName: ...}))
WithCategoryNames(rows, cats) ==
  [i \in DOMAIN rows |->
     [rows[i] EXCEPT !.categoryName = CategoryNameOf(rows[i].categoryId, cats)]]

\* formData.serialNo !== null && formData.serialNo !== 0
\*   ? Number(formData.serialNo) : null
StoredSerial(input) ==
  IF input /= None /\ Get(input) /= 0 THEN input ELSE None

\* A write of a form or of handleDelete; seq tells two equal writes apart.
ListRequest(coll, kind, id, data) ==
  [coll |-> coll, kind |-> kind, id |-> id, data |-> data,
   seq |-> listWrites]

CanIssueListWrite ==
  /\ listWrites < MaxListingWrites
  /\ Cardinality(listInflight) < MaxInFlight

IssueListWrite(r) ==
  /\ listInflight' = listInflight \cup {r}
  /\ listWrites' = listWrites + 1

\* addDoc / updateDoc / deleteDoc applied to a collection.  addDoc takes
\* the least free id, updateDoc needs the document to exist.
CanApply(coll, pool, r) ==
  CASE r.kind = "add" -> pool \ DOMAIN coll /= {}
    [] r.kind = "update" -> r.id \in DOMAIN coll
    [] OTHER -> TRUE

Apply(coll, pool, r) ==
  CASE r.kind = "add" ->
         LET id == CHOOSE x \in pool \ DOMAIN coll :
                     \A y \in pool \ DOMAIN coll : x <= y
         IN coll @@ (id :> r.data)
    [] r.kind = "update" ->
         [coll EXCEPT ![r.id] = MergeFields(coll[r.id], r.data)]
    [] OTHER -> [id \in DOMAIN coll \ {r.id} |-> coll[id]]

ListingInit ==
  /\ categories = <<>>
  /\ products = <<>>
  /\ productsPending = {}
  /\ listInflight = {}
  /\ listWrites = 0
  /\ listClock = 4

\* Categories: the onSnapshot callback sorts the snapshot and shows it.
CategoriesOnSnapshot ==
  /\ categories' = Sort("categories", CategoriesSnapshot)
  /\ UNCHANGED <<storeVars, products, productsPending, listInflight,
                 listWrites, listClock>>

\* Categories.handleSubmit of the create dialog, up to its await.
CategoryCreate(serial) ==
  /\ CanIssueListWrite
  /\ IssueListWrite(ListRequest("categories", "add", 0,
                                 CategoryDoc("New", StoredSerial(serial),
                                             listClock)))
  /\ listClock' = listClock + 1
  /\ UNCHANGED <<storeVars, categories, products, productsPending>>

\* Categories.handleSubmit of the edit dialog of a listed category, up to
\* its await; the form was filled from the row by handleEdit.
CategoryUpdate(i, serial) ==
  /\ CanIssueListWrite
  /\ IssueListWrite(ListRequest("categories", "update", categories[i].id,
                                 [name |-> categories[i].name,
                                  serialNo |-> StoredSerial(serial)]))
  /\ UNCHANGED <<storeVars, categories, products, productsPending,
                 listClock>>

\* Categories.handleDelete, confirmed, up to its await.
CategoryDelete(i) ==
  /\ CanIssueListWrite
  /\ IssueListWrite(ListRequest("categories", "delete", categories[i].id,
                                 <<>>))
  /\ UNCHANGED <<storeVars, categories, products, productsPending,
                 listClock>>

\* The await of a Categories write resolves.
CategoryWriteSucceeds(r) ==
  /\ r \in listInflight /\ r.coll = "categories"
  /\ CanApply(categoriesDb, CategoryIds, r)
  /\ categoriesDb' = Apply(categoriesDb, CategoryIds, r)
  /\ listInflight' = listInflight \ {r}
  /\ UNCHANGED <<productsDb, categories, products, productsPending,
                 listWrites, listClock>>

CategoryWriteFails(r) ==
  /\ r \in listInflight /\ r.coll = "categories"
  /\ listInflight' = listInflight \ {r}
  /\ UNCHANGED <<storeVars, categories, products, productsPending,
                 listWrites, listClock>>

\* Products: the onSnapshot callback up to its await of the category fetch.
ProductsOnSnapshot ==
  /\ Cardinality(productsPending) < MaxPendingSnapshots
  /\ productsPending' = productsPending \cup {ProductsSnapshot}
  /\ UNCHANGED <<storeVars, categories, products, listInflight, listWrites,
                 listClock>>

\* The category fetch resolves: names are attached, the rows are sorted and
\* shown.
ProductsCategoriesFetched(snapshot) ==
  /\ snapshot \in productsPending
  /\ products' = Sort("products", WithCategoryNames(snapshot, categoriesDb))
  /\ productsPending' = productsPending \ {snapshot}
  /\ UNCHANGED <<storeVars, categories, listInflight, listWrites, listClock>>

\* The category fetch rejects: the callback ends without touching the state.
ProductsCategoriesFetchFails(snapshot) ==
  /\ snapshot \in productsPending
  /\ productsPending' = productsPending \ {snapshot}
  /\ UNCHANGED <<storeVars, categories, products, listInflight, listWrites,
                 listClock>>

\* Products.handleSubmit of the create dialog with the form's defaults and a
\* serial number, up to its await.
ProductCreate(serial) ==
  /\ CanIssueListWrite
  /\ IssueListWrite(ListRequest("products", "add", 0,
                                 ProductDoc(0, 0, 0, StoredSerial(serial),
                                            listClock, 0)))
  /\ listClock' = listClock + 1
  /\ UNCHANGED <<storeVars, categories, products, productsPending>>

\* Products.handleSubmit of the edit dialog of a listed product, up to its
\* await; the form was filled from the row by handleEdit.
ProductUpdate(i, serial) ==
  /\ CanIssueListWrite
  /\ IssueListWrite(ListRequest("products", "update", products[i].id,
                                 [stock |-> products[i].stock,
                                  price |-> products[i].price,
                                  salePrice |-> products[i].salePrice,
                                  categoryId |-> products[i].categoryId,
                                  serialNo |-> StoredSerial(serial)]))
  /\ UNCHANGED <<storeVars, categories, products, productsPending,
                 listClock>>

\* Products.handleDelete, confirmed, up to its await.
ProductDelete(i) ==
  /\ CanIssueListWrite
  /\ IssueListWrite(ListRequest("products", "delete", products[i].id, <<>>))
  /\ UNCHANGED <<storeVars, categories, products, productsPending,
                 listClock>>

\* The await of a Products write resolves.
ProductWriteSucceeds(r) ==
  /\ r \in listInflight /\ r.coll = "products"
  /\ CanApply(productsDb, InvProductIds, r)
  /\ productsDb' = Apply(productsDb, InvProductIds, r)
  /\ listInflight' = listInflight \ {r}
  /\ UNCHANGED <<categoriesDb, categories, products, productsPending,
                 listWrites, listClock>>

ProductWriteFails(r) ==
  /\ r \in listInflight /\ r.coll = "products"
  /\ listInflight' = listInflight \ {r}
  /\ UNCHANGED <<storeVars, categories, products, productsPending,
                 listWrites, listClock>>

ListingNext ==
  \/ CategoriesOnSnapshot
  \/ \E serial \in SerialInputs : CategoryCreate(serial)
  \/ \E i \in DOMAIN categories, serial \in SerialInputs :
       CategoryUpdate(i, serial)
  \/ \E i \in DOMAIN categories : CategoryDelete(i)
  \/ \E r \in listInflight : CategoryWriteSucceeds(r)
  \/ \E r \in listInflight : CategoryWriteFails(r)
  \/ ProductsOnSnapshot
  \/ \E snapshot \in productsPending : ProductsCategoriesFetched(snapshot)
  \/ \E snapshot \in productsPending : ProductsCategoriesFetchFails(snapshot)
  \/ \E serial \in SerialInputs : ProductCreate(serial)
  \/ \E i \in DOMAIN products, serial \in SerialInputs :
       ProductUpdate(i, serial)
  \/ \E i \in DOMAIN products : ProductDelete(i)
  \/ \E r \in listInflight : ProductWriteSucceeds(r)
  \/ \E r \in listInflight : ProductWriteFails(r)

\* The Products and the Inventory view over one store in which categories
\* are deleted and products without a category are created.
CategoryLabelsNext ==
  \/ CategoriesOnSnapshot /\ UNCHANGED <<invViewVars, dashVars>>
  \/ \E i \in DOMAIN categories :
       CategoryDelete(i) /\ UNCHANGED <<invViewVars, dashVars>>
  \/ \E r \in listInflight :
       CategoryWriteSucceeds(r) /\ UNCHANGED <<invViewVars, dashVars>>
  \/ ProductCreate(None) /\ UNCHANGED <<invViewVars, dashVars>>
  \/ \E r \in listInflight :
       ProductWriteSucceeds(r) /\ UNCHANGED <<invViewVars, dashVars>>
  \/ ProductsOnSnapshot /\ UNCHANGED <<invViewVars, dashVars>>
  \/ \E snapshot \in productsPending :
       ProductsCategoriesFetched(snapshot)
       /\ UNCHANGED <<invViewVars, dashVars>>
  \/ FetchDataStart /\ UNCHANGED listVars
  \/ FetchDataSucceeds /\ UNCHANGED listVars

(***************************************************************************)
(* Snapshot listeners of the list views                                    *)
(***************************************************************************)
ListViews == {"Orders", "Categories", "Products", "BulkOrders", "ComboOrders"}

\* The queries a view passes to onSnapshot in its mount effect, in order.
ListenerQueries(view) ==
  CASE view = "Orders" -> <<"orders">>
    [] view = "Categories" -> <<"categories">>
    [] view = "Products" -> <<"products", "categories">>
    [] view = "BulkOrders" -> <<"bulkPricing", "wholesaleAccounts">>
    [] view = "ComboOrders" -> <<"combos", "products">>

VARIABLES
  mounted,           \* the list views currently mounted
  listeners,         \* the store's registry: listeners registered, not released
  cleanups,          \* view -> listener ids its effect's cleanup unsubscribes
  mounts             \* number of mounts so far

mountVars == <<mounted, listeners, cleanups, mounts>>

Listener(id, view, collection) ==
  [id |-> id, view |-> view, collection |-> collection]

\* onSnapshot for each query of the view; the ids are the handles returned.
Registered(view, first) ==
  {Listener(first + i, view, ListenerQueries(view)[i]) :
     i \in DOMAIN ListenerQueries(view)}

\* A cleanup that calls only the unsubscribe obtained first.
UnsubscribedFirstOnly(ids) ==
  {id \in ids : \A other \in ids : id <= other}

\* The unsubscribe functions the cleanup of the effect calls: every one the
\* effect obtained.
Unsubscribed(ids) == ids

MountInit ==
  /\ mounted = {}
  /\ listeners = {}
  /\ cleanups = [v \in ListViews |-> {}]
  /\ mounts = 0

\* The view mounts: its effect runs once and registers its listeners.
Mount(view) ==
  /\ view \notin mounted
  /\ mounts < MaxMounts
  /\ LET new == Registered(view, 10 * mounts)
     IN /\ listeners' = listeners \cup new
        /\ cleanups' = [cleanups EXCEPT ![view] = {l.id : l \in new}]
  /\ mounted' = mounted \cup {view}
  /\ mounts' = mounts + 1

\* The view unmounts: React runs the cleanup the effect returned.
Unmount(view) ==
  /\ view \in mounted
  /\ listeners' = {l \in listeners : l.id \notin Unsubscribed(cleanups[view])}
  /\ cleanups' = [cleanups EXCEPT ![view] = {}]
  /\ mounted' = mounted \ {view}
  /\ UNCHANGED mounts

ListenersNext ==
  \/ \E view \in ListViews : Mount(view)
  \/ \E view \in ListViews : Unmount(view)

(***************************************************************************)
(* Failures of remote operations and what the admin is shown               *)
(***************************************************************************)
\* The `users` collection the Customers view reads, newest first.
UsersSnapshot == <<[id |-> 2, createdAt |-> 2], [id |-> 1, createdAt |-> 1]>>

VARIABLES
  customers,         \* Customers state: customers
  customersLoading,  \* Customers state: loading
  remoteFailures,    \* history: remote operations that have failed
  failureNotices,    \* toasts and alerts shown for a failed remote operation
  consoleErrors      \* lines written to the console for a failed operation

failVars ==
  <<customers, customersLoading, remoteFailures, failureNotices,
    consoleErrors>>

FailInit ==
  /\ customers = <<>>
  /\ customersLoading = TRUE
  /\ remoteFailures = 0
  /\ failureNotices = 0
  /\ consoleErrors = 0

\* A remote operation fails: `notices` toasts or alerts are shown and
\* `logged` lines are written to the console by the code that handles it.
RemoteFailure(notices, logged) ==
  /\ remoteFailures < MaxFailures
  /\ remoteFailures' = remoteFailures + 1
  /\ failureNotices' = failureNotices + notices
  /\ consoleErrors' = consoleErrors + logged

\* Dashboard.fetchDashboardStats when a read rejects: the catch block logs,
\* finally clears loading; the stats and the series are not set.
FetchDashboardStatsFails ==
  /\ RemoteFailure(0, 1)
  /\ UNCHANGED <<storeVars, invViewVars, dashVars, analyticsVars, customers,
                 customersLoading>>

\* The orders listener of the Orders view fails: onSnapshot was given no
\* error callback, so no code of the view runs.
OrdersSnapshotFails ==
  /\ RemoteFailure(0, 0)
  /\ UNCHANGED <<storeVars, invViewVars, dashVars, analyticsVars, customers,
                 customersLoading>>

\* Customers.fetchCustomers with its read answered.
FetchCustomers ==
  /\ customersLoading
  /\ customers' = UsersSnapshot
  /\ customersLoading' = FALSE
  /\ UNCHANGED <<storeVars, invViewVars, dashVars, analyticsVars,
                 remoteFailures, failureNotices, consoleErrors>>

\* Customers.fetchCustomers when the read rejects: logged, loading cleared.
FetchCustomersFails ==
  /\ customersLoading
  /\ RemoteFailure(0, 1)
  /\ customersLoading' = FALSE
  /\ UNCHANGED <<storeVars, invViewVars, dashVars, analyticsVars, customers>>

\* fetchAnalyticsData when a read rejects: logged and a destructive toast
\* "Failed to load analytics data" is shown.
FetchAnalyticsDataFails ==
  /\ RemoteFailure(1, 1)
  /\ UNCHANGED <<storeVars, invViewVars, dashVars, analyticsVars, customers,
                 customersLoading>>

FailuresNext ==
  \/ FetchDashboardStatsFails
  \/ OrdersSnapshotFails
  \/ FetchCustomers
  \/ FetchCustomersFails
  \/ FetchAnalyticsDataFails
  \/ /\ FetchDataFails
     /\ RemoteFailure(0, 1)
     /\ UNCHANGED <<analyticsVars, customers, customersLoading>>
  \/ \E range \in TimeRanges : SetTimeRange(range) /\ UNCHANGED failVars
  \/ FetchAnalyticsData /\ UNCHANGED failVars
  \/ FetchDashboardStats /\ UNCHANGED <<analyticsVars, failVars>>

(***************************************************************************)
(* Order details dialog of the Orders view                                 *)
(***************************************************************************)
VARIABLES
  selectedOrder,     \* Orders state: the order the details dialog was opened on
  isDetailsOpen,     \* Orders state: details dialog open
  typedFor           \* history: the order shown when the tracking text was typed

detailsVars == <<selectedOrder, isDetailsOpen, typedFor>>

DetailsInit ==
  /\ selectedOrder = None
  /\ isDetailsOpen = FALSE
  /\ typedFor = None

\* selectedOrder.status !== 'shipped' && selectedOrder.status !== 'delivered'
ShowsTrackingCard(order) ==
  order.status /= "shipped" /\ order.status /= "delivered"

\* The "Add Tracking Number" card is rendered.
TrackingCardShown ==
  /\ isDetailsOpen
  /\ IsSome(selectedOrder)
  /\ ShowsTrackingCard(Get(selectedOrder))

\* The View Details button of a row: the row's order is kept as it is now.
ViewDetails(id) ==
  /\ IsSome(ordersDb[id])
  /\ selectedOrder' = Some([id |-> id] @@ Get(ordersDb[id]))
  /\ isDetailsOpen' = TRUE
  /\ UNCHANGED <<ordersVars, typedFor>>

\* onOpenChange of the dialog when it is dismissed.
CloseDetails ==
  /\ isDetailsOpen
  /\ isDetailsOpen' = FALSE
  /\ UNCHANGED <<ordersVars, selectedOrder, typedFor>>

\* onChange of the tracking input, which exists only inside the card of the
\* dialog: the text is the shared trackingNumber state of the view.
TypeTrackingNumber(s) ==
  /\ TrackingCardShown
  /\ SetTrackingNumber(s)
  /\ typedFor' = Some(Get(selectedOrder).id)
  /\ UNCHANGED <<selectedOrder, isDetailsOpen>>

\* The tracking input and the Ship Order button exist only inside the card.
DetailsNext ==
  \/ \E id \in OrderIds : ViewDetails(id)
  \/ CloseDetails
  \/ \E id \in OrderIds, st \in OrderStatuses :
       UpdateOrderStatus(id, st) /\ UNCHANGED detailsVars
  \/ \E s \in TrackingInputs : TypeTrackingNumber(s)
  \/ /\ TrackingCardShown
     /\ UpdateTrackingNumber(Get(selectedOrder).id)
     /\ UNCHANGED detailsVars
  \/ \E r \in inflight : StatusWriteSucceeds(r) /\ UNCHANGED detailsVars
  \/ \E r \in inflight : TrackingWriteSucceeds(r) /\ UNCHANGED detailsVars

(***************************************************************************)
(* The loading state of the view the router shows                          *)
(***************************************************************************)
OneShotViews == {"Dashboard", "Analytics", "Inventory", "Customers", "Settings"}

\* The reads a one-shot view awaits, one after the other, in its try block.
FetchReads(view) ==
  CASE view = "Dashboard" -> <<"products", "categories", "orders">>
    [] view = "Analytics" ->
         <<"orders", "products", "categories", "previousOrders">>
    [] view = "Inventory" -> <<"categories", "products">>
    [] view = "Customers" -> <<"users">>
    [] view = "Settings" -> <<"store", "notifications", "security">>

InitialReads(view) ==
  IF view \in ListViews THEN ListenerQueries(view) ELSE FetchReads(view)

\* The listener of a list view whose callback calls setLoading(false).
LoadingListener(view) ==
  CASE view = "Orders" -> 1
    [] view = "Categories" -> 1
    [] view = "Products" -> 1
    [] view = "BulkOrders" -> 2
    [] view = "ComboOrders" -> 2

VARIABLES
  opened,            \* the view the router currently renders, if any
  viewLoading,       \* that view's state: loading
  initialReads       \* history: the outcome of each initial read of the view

loadVars == <<opened, viewLoading, initialReads>>

LoadInit ==
  /\ opened = None
  /\ viewLoading = TRUE
  /\ initialReads = <<>>

\* Every initial read has been answered, or one was refused (a one-shot view
\* then issues no further read).
ReadsSettled ==
  /\ \A i \in DOMAIN initialReads : initialReads[i] \notin {"pending", "awaiting"}
  /\ \/ \A i \in DOMAIN initialReads : initialReads[i] = "completed"
     \/ \E i \in DOMAIN initialReads : initialReads[i] = "failed"

\* A list view is navigated to: useState(true), then the mount effect
\* registers its listeners.
OpenListView(view) ==
  /\ opened = None
  /\ Mount(view)
  /\ opened' = Some(view)
  /\ viewLoading' = TRUE
  /\ initialReads' = [i \in DOMAIN ListenerQueries(view) |-> "pending"]

\* A one-shot view is navigated to: useState(true), then the mount effect
\* starts its fetch, which issues the first read.
OpenFetchView(view) ==
  /\ opened = None
  /\ mounts < MaxMounts
  /\ mounts' = mounts + 1
  /\ opened' = Some(view)
  /\ viewLoading' = TRUE
  /\ initialReads' = [i \in DOMAIN FetchReads(view) |->
                        IF i = 1 THEN "pending" ELSE "unissued"]
  /\ UNCHANGED <<mounted, listeners, cleanups>>

\* The admin navigates away: the view unmounts and its state is dropped.
CloseView ==
  /\ IsSome(opened)
  /\ IF Get(opened) \in ListViews
     THEN Unmount(Get(opened))
     ELSE UNCHANGED mountVars
  /\ opened' = None
  /\ viewLoading' = TRUE
  /\ initialReads' = <<>>

\* The first snapshot of a listener is delivered to its callback.  The
\* products callback of the Products view goes on to await a categories read.
SnapshotDelivered(i) ==
  /\ IsSome(opened) /\ Get(opened) \in ListViews
  /\ i \in DOMAIN initialReads /\ initialReads[i] = "pending"
  /\ IF Get(opened) = "Products" /\ i = 1
     THEN /\ initialReads' = [initialReads EXCEPT ![i] = "awaiting"]
          /\ UNCHANGED viewLoading
     ELSE /\ initialReads' = [initialReads EXCEPT ![i] = "completed"]
          /\ viewLoading' =
               IF i = LoadingListener(Get(opened)) THEN FALSE ELSE viewLoading
  /\ UNCHANGED <<opened, mountVars>>

\* A listener is refused by the store: the views pass onSnapshot no error
\* callback, so none of their code runs.
SnapshotFails(i) ==
  /\ IsSome(opened) /\ Get(opened) \in ListViews
  /\ i \in DOMAIN initialReads /\ initialReads[i] = "pending"
  /\ initialReads' = [initialReads EXCEPT ![i] = "failed"]
  /\ UNCHANGED <<opened, viewLoading, mountVars>>

\* The categories read the products callback awaits is answered.
CallbackFetchCompleted ==
  /\ opened = Some("Products")
  /\ initialReads[1] = "awaiting"
  /\ initialReads' = [initialReads EXCEPT ![1] = "completed"]
  /\ viewLoading' = FALSE
  /\ UNCHANGED <<opened, mountVars>>

\* That read rejects: the async callback has no try block.
CallbackFetchFails ==
  /\ opened = Some("Products")
  /\ initialReads[1] = "awaiting"
  /\ initialReads' = [initialReads EXCEPT ![1] = "failed"]
  /\ UNCHANGED <<opened, viewLoading, mountVars>>

\* A read of a one-shot fetch is answered: the next one is issued, after the
\* last one the finally block clears loading.
ReadCompleted(i) ==
  /\ IsSome(opened) /\ Get(opened) \in OneShotViews
  /\ i \in DOMAIN initialReads /\ initialReads[i] = "pending"
  /\ IF i = Len(initialReads)
     THEN /\ initialReads' = [initialReads EXCEPT ![i] = "completed"]
          /\ viewLoading' = FALSE
     ELSE /\ initialReads' = [initialReads EXCEPT ![i] = "completed",
                                                  ![i + 1] = "pending"]
          /\ UNCHANGED viewLoading
  /\ UNCHANGED <<opened, mountVars>>

\* A read of a one-shot fetch rejects: catch, then finally clears loading.
ReadFails(i) ==
  /\ IsSome(opened) /\ Get(opened) \in OneShotViews
  /\ i \in DOMAIN initialReads /\ initialReads[i] = "pending"
  /\ initialReads' = [initialReads EXCEPT ![i] = "failed"]
  /\ viewLoading' = FALSE
  /\ UNCHANGED <<opened, mountVars>>

LoadingNext ==
  \/ \E view \in ListViews : OpenListView(view)
  \/ \E view \in OneShotViews : OpenFetchView(view)
  \/ CloseView
  \/ \E i \in DOMAIN initialReads : SnapshotDelivered(i)
  \/ \E i \in DOMAIN initialReads : SnapshotFails(i)
  \/ CallbackFetchCompleted
  \/ CallbackFetchFails
  \/ \E i \in DOMAIN initialReads : ReadCompleted(i)
  \/ \E i \in DOMAIN initialReads : ReadFails(i)

(***************************************************************************)
(* How the combo form dialog was opened                                    *)
(***************************************************************************)
VARIABLES
  openedBy           \* history: the button that opened the combo dialog last

formVars == <<openedBy>>

FormInit == openedBy = ""

\* The "Create Combo" button (the dialog is closed) or a dismissal of the
\* dialog: Cancel button, close button, Escape (the dialog is open).
ClickCreateOrDismiss(open) ==
  /\ open = ~isDialogOpen
  /\ SetIsDialogOpen(open)
  /\ openedBy' = IF open THEN "add" ELSE openedBy

\* The Edit button of a listed combo.
ClickEdit(id) ==
  /\ HandleEdit(id)
  /\ openedBy' = "edit"

ComboFormNext ==
  \/ \E b \in BOOLEAN : ClickCreateOrDismiss(b)
  \/ \E id \in DOMAIN combosDb : ClickEdit(id)
  \/ \E p \in ProductIds, b \in BOOLEAN :
       HandleProductSelection(p, b) /\ UNCHANGED formVars
  \/ \E p \in ProductIds, q \in QuantityInputs :
       UpdateProductQuantity(p, q) /\ UNCHANGED formVars
  \/ \E p \in ProductIds : RemoveProduct(p) /\ UNCHANGED formVars
  \/ \E c \in ComboPriceInputs : SetComboPrice(c) /\ UNCHANGED formVars
  \/ HandleSubmit /\ UNCHANGED formVars
  \/ \E r \in comboInflight : ComboWriteSucceeds(r) /\ UNCHANGED formVars
  \/ \E r \in comboInflight : ComboWriteFails(r) /\ UNCHANGED formVars

(***************************************************************************)
(* Products: the order in which snapshots are delivered and shown          *)
(***************************************************************************)
VARIABLES
  lastDelivered      \* history: the products snapshot delivered last, if any

raceVars == <<lastDelivered>>

RaceInit == lastDelivered = None

\* The store delivers the current products to the onSnapshot callback, which
\* runs up to its await.
DeliverProductsSnapshot ==
  /\ ProductsOnSnapshot
  /\ lastDelivered' = Some(ProductsSnapshot)

SnapshotRaceNext ==
  \/ DeliverProductsSnapshot
  \/ \E snapshot \in productsPending :
       ProductsCategoriesFetched(snapshot) /\ UNCHANGED raceVars
  \/ \E serial \in SerialInputs : ProductCreate(serial) /\ UNCHANGED raceVars
  \/ \E i \in DOMAIN products, serial \in SerialInputs :
       ProductUpdate(i, serial) /\ UNCHANGED raceVars
  \/ \E i \in DOMAIN products : ProductDelete(i) /\ UNCHANGED raceVars
  \/ \E r \in listInflight : ProductWriteSucceeds(r) /\ UNCHANGED raceVars
  \/ \E r \in listInflight : ProductWriteFails(r) /\ UNCHANGED raceVars

auxVars ==
  <<mountVars, failVars, detailsVars, loadVars, formVars, raceVars>>

vars == <<ordersVars, comboVars, invVars, listVars, auxVars>>

AppInit ==
  /\ OrdersInit /\ ComboInit /\ InvInit /\ PeerInit /\ DashInit
  /\ AnalyticsInit /\ ListingInit /\ MountInit /\ FailInit
  /\ DetailsInit /\ LoadInit /\ FormInit /\ RaceInit

\* The metrics are functions of the date and of the orders fetched: both are
\* drawn, the views are as they are opened.
MetricsInit ==
  /\ today \in MetricsDays
  /\ ordersDb \in MetricsOrders(today)
  /\ OrdersViewInit
  /\ ComboInit /\ InvInit /\ PeerInit /\ AnalyticsInit /\ ListingInit
  /\ MountInit /\ FailInit
  /\ DetailsInit /\ LoadInit /\ FormInit /\ RaceInit
  /\ dashStats = None
  /\ weeklyData = <<>>
  /\ monthlyData = <<>>

SpecOrders ==
  /\ AppInit
  /\ [][WorkflowNext
        /\ UNCHANGED <<comboVars, invVars, listVars, auxVars>>]_vars

SpecOrderDeletion ==
  /\ AppInit
  /\ [][SelectionNext
        /\ UNCHANGED <<comboVars, invVars, listVars, auxVars>>]_vars

SpecCombo ==
  /\ AppInit
  /\ [][ComboNext
        /\ UNCHANGED <<ordersVars, invVars, listVars, auxVars>>]_vars

SpecInventory ==
  /\ AppInit
  /\ [][InventoryNext
        /\ UNCHANGED <<ordersVars, comboVars, listVars, analyticsVars,
                       peerVars, auxVars>>]_vars

SpecStockRace ==
  /\ AppInit
  /\ [][StockRaceNext
        /\ UNCHANGED <<ordersVars, comboVars, listVars, analyticsVars,
                       peerVars, auxVars>>]_vars

SpecTwoAdmins ==
  /\ AppInit
  /\ [][TwoAdminsNext
        /\ UNCHANGED <<ordersVars, comboVars, listVars, analyticsVars,
                       auxVars>>]_vars

SpecMetrics ==
  /\ MetricsInit
  /\ [][MetricsNext
        /\ UNCHANGED <<ordersVars, comboVars, listVars, peerVars,
                       auxVars>>]_vars

SpecListing ==
  /\ AppInit
  /\ [][ListingNext
        /\ UNCHANGED <<ordersVars, comboVars, invViewVars, peerVars,
                       dashVars, analyticsVars, auxVars>>]_vars

SpecCategoryLabels ==
  /\ AppInit
  /\ [][CategoryLabelsNext
        /\ UNCHANGED <<ordersVars, comboVars, peerVars, analyticsVars,
                       auxVars>>]_vars

SpecListeners ==
  /\ AppInit
  /\ [][ListenersNext
        /\ UNCHANGED <<ordersVars, comboVars, invVars, listVars,
                       failVars, detailsVars, loadVars, formVars,
                       raceVars>>]_vars

SpecFailures ==
  /\ AppInit
  /\ [][FailuresNext
        /\ UNCHANGED <<ordersVars, comboVars, listVars, peerVars,
                       mountVars, detailsVars, loadVars, formVars,
                       raceVars>>]_vars

SpecOrderDetails ==
  /\ AppInit
  /\ [][DetailsNext
        /\ UNCHANGED <<comboVars, invVars, listVars, mountVars,
                       failVars, loadVars, formVars, raceVars>>]_vars

SpecLoading ==
  /\ AppInit
  /\ [][LoadingNext
        /\ UNCHANGED <<ordersVars, comboVars, invVars, listVars, failVars,
                       detailsVars, formVars, raceVars>>]_vars

SpecComboForm ==
  /\ AppInit
  /\ [][ComboFormNext
        /\ UNCHANGED <<ordersVars, invVars, listVars, mountVars, failVars,
                       detailsVars, loadVars, raceVars>>]_vars

SpecSnapshotRace ==
  /\ AppInit
  /\ [][SnapshotRaceNext
        /\ UNCHANGED <<ordersVars, comboVars, categoriesDb, invViewVars,
                       peerVars, dashVars, analyticsVars, categories,
                       mountVars, failVars, detailsVars, loadVars,
                       formVars>>]_vars

(***************************************************************************)
(* Claims about the Orders view                                            *)
(***************************************************************************)
AllWhitespace(s) == \A i \in 1..Len(s) : s[i] = " "

Issued(kind, id) ==
  {r \in inflight' \ inflight : r.kind = kind /\ r.id = id}

\* C1: whatever the order's status is, updateTrackingNumber with a non-blank
\* input issues a write carrying the input as typed, and when that write
\* succeeds the stored order has status shipped and that tracking number.
C1_TrackingForcesShipped ==
  [][/\ \A id \in OrderIds :
          (~AllWhitespace(trackingNumber) /\ UpdateTrackingNumber(id))
            => \E r \in Issued("tracking", id) : r.tn = trackingNumber
     /\ \A r \in inflight :
          TrackingWriteSucceeds(r)
            => /\ IsSome(ordersDb'[r.id])
               /\ Get(ordersDb'[r.id]).status = "shipped"
               /\ Get(ordersDb'[r.id]).trackingNumber = Some(r.tn)]_vars

\* Witness of C1: a delivered order got a tracking number with a leading
\* space and is now shipped.
C1_Witness ==
  /\ lastWrite.kind = "tracking" /\ lastWrite.ok
  /\ lastWrite.prior = "delivered"
  /\ Get(ordersDb[lastWrite.id]).status = "shipped"
  /\ Get(ordersDb[lastWrite.id]).trackingNumber = Some(<<" ", "T">>)

\* C2: updateTrackingNumber with an empty or whitespace-only input shows the
\* error toast, issues no write and leaves every stored order as it was.
C2_BlankTrackingRejected ==
  [][\A id \in OrderIds :
       (AllWhitespace(trackingNumber) /\ UpdateTrackingNumber(id))
         => /\ lastToast' = "Please enter a tracking number"
            /\ inflight' = inflight
            /\ ordersDb' = ordersDb
            /\ clock' = clock]_vars

\* Witness of C2: the error toast is up while the input holds one space.
C2_Witness ==
  /\ lastToast = "Please enter a tracking number"
  /\ trackingNumber = <<" ">>
  /\ inflight = {}

\* C3: when the batch commit of deleteSelectedOrders resolves, either every
\* selected order is gone and every other order is as before, or the stored
\* orders are exactly as before.
C3_BatchDeleteAtomic ==
  [][\A r \in inflight :
       (r.kind = "batch" /\ r \notin inflight')
         => \/ ordersDb' = ordersDb
            \/ \A id \in OrderIds :
                 ordersDb'[id] =
                   IF id \in Range(r.ids) THEN None ELSE ordersDb[id]]_vars

\* Witness of C3: the only write issued was a batch over both orders and
\* both are gone.
C3_Witness ==
  /\ lastWrite.kind = "batch" /\ lastWrite.ok
  /\ clock = 1
  /\ \A id \in OrderIds : ordersDb[id] = None

\* C4: updateOrderStatus issues its write for any target status whatever the
\* current status is, and a successful status change sets the requested
\* status and updatedAt and nothing else, on that order only.
C4_StatusChangeUnrestricted ==
  [][/\ \A id \in OrderIds, st \in OrderStatuses :
          UpdateOrderStatus(id, st)
            => \E r \in Issued("status", id) : r.status = st
     /\ \A r \in inflight :
          StatusWriteSucceeds(r)
            => ordersDb' =
                 [ordersDb EXCEPT ![r.id] =
                    Some([Get(ordersDb[r.id]) EXCEPT !.status = r.status,
                                                     !.updatedAt = r.at])]]_vars

\* Witness of C4: an order left the delivered status for pending.
C4_Witness ==
  /\ lastWrite.kind = "status" /\ lastWrite.ok
  /\ lastWrite.prior = "delivered"
  /\ Get(ordersDb[lastWrite.id]).status = "pending"

\* C5: every stored order keeps the items and pricing it was created with,
\* so finalTotal = subtotal - bulkDiscountTotal + shippingCost and
\* lineTotal = quantity * finalUnitPrice hold of it in every reachable state.
PricingConsistent(o) ==
  /\ o.pricing.finalTotal =
       o.pricing.subtotal - o.pricing.bulkDiscountTotal + o.pricing.shippingCost
  /\ \A i \in DOMAIN o.items :
       o.items[i].lineTotal = o.items[i].quantity * o.items[i].finalUnitPrice

C5_PricingPreserved ==
  \A id \in OrderIds :
    IsSome(ordersDb[id]) =>
      /\ Get(ordersDb[id]).items = NewOrder(id).items
      /\ Get(ordersDb[id]).pricing = NewOrder(id).pricing
      /\ PricingConsistent(Get(ordersDb[id]))

\* Witness of C5: an order went through a status change and a tracking
\* assignment.
C5_Witness ==
  \E id \in OrderIds :
    /\ IsSome(ordersDb[id])
    /\ Get(ordersDb[id]).updatedAt = 2
    /\ IsSome(Get(ordersDb[id]).trackingNumber)
    /\ lastWrite.kind = "tracking" /\ lastWrite.prior = "cancelled"
    /\ PricingConsistent(Get(ordersDb[id]))

(***************************************************************************)
(* Claims about the ComboOrders form                                       *)
(***************************************************************************)
ComboIssued == comboInflight' \ comboInflight

\* C6: a submit with fewer than 2 constituents shows the error, issues no
\* write, leaves the stored combos as they were and ends with saving false;
\* a submit with exactly 2 constituents issues one write.
C6_ComboNeedsTwoProducts ==
  [][HandleSubmit =>
       /\ Len(formProducts) <= 1 =>
            /\ comboToast' = "A combo must have at least 2 products"
            /\ ComboIssued = {}
            /\ combosDb' = combosDb
            /\ saving' = FALSE
       /\ Len(formProducts) = 2 => Cardinality(ComboIssued) = 1]_vars

\* Witness of C6: a submit with exactly one constituent was rejected.
C6_Witness ==
  /\ comboToast = "A combo must have at least 2 products"
  /\ Len(formProducts) = 1
  /\ ~saving
  /\ comboWrites = 0

\* Sum of price * quantity over the constituents, by position.
RECURSIVE SumOfParts(_, _)
SumOfParts(ps, n) ==
  IF n = 0 THEN 0
  ELSE SumOfParts(ps, n - 1) + ps[n].price * ps[n].quantity

\* C7: the document handleSubmit sends, for a create and for an update, holds
\* the form's constituents, originalPrice = the sum of price * quantity over
\* them and savings = originalPrice - comboPrice (whatever its sign), and a
\* successful write stores exactly those values.
C7_ComboPriceRecomputed ==
  [][/\ HandleSubmit =>
          \A r \in ComboIssued :
            /\ r.data.products = formProducts
            /\ r.data.originalPrice =
                 SumOfParts(formProducts, Len(formProducts))
            /\ r.data.comboPrice = comboPrice
            /\ r.data.savings = r.data.originalPrice - comboPrice
     /\ \A r \in comboInflight :
          ComboWriteSucceeds(r) =>
            LET stored == IF r.kind = "update" THEN combosDb'[r.id]
                          ELSE combosDb'[Len(combosDb')]
            IN /\ stored.products = r.data.products
               /\ stored.originalPrice = r.data.originalPrice
               /\ stored.comboPrice = r.data.comboPrice
               /\ stored.savings = r.data.savings]_vars

\* Witness of C7: a combo was created with a quantity of 2 and a combo price
\* above the sum of its parts, and is stored with negative savings.
C7_Witness ==
  /\ Len(combosDb) = 2
  /\ combosDb[2].savings < 0
  /\ combosDb[2].originalPrice = 32
  /\ \E i \in DOMAIN combosDb[2].products :
       combosDb[2].products[i].quantity = 2

(***************************************************************************)
(* Claims about the stock metrics                                          *)
(***************************************************************************)
\* C8: every row of the Inventory list is labelled Out of Stock when its
\* stock is 0, Low Stock when 1 <= stock <= 10 and In Stock when stock > 10;
\* so are the boundary values 0, 10 and 11.
C8_StockStatusClasses ==
  /\ \A i \in DOMAIN invProducts :
       LET stock == invProducts[i].stock
       IN /\ stock = 0 => StatusLabels[i] = "Out of Stock"
          /\ (1 <= stock /\ stock <= 10) => StatusLabels[i] = "Low Stock"
          /\ stock > 10 => StatusLabels[i] = "In Stock"
  /\ getStockStatus(0) = "Out of Stock"
  /\ getStockStatus(10) = "Low Stock"
  /\ getStockStatus(11) = "In Stock"

\* Witness of C8: after a stock edit the list shows a row with stock 11
\* beside a row with stock 10.
C8_Witness ==
  /\ \E i \in DOMAIN invProducts :
       invProducts[i].stock = 11 /\ StatusLabels[i] = "In Stock"
  /\ \E i \in DOMAIN invProducts :
       invProducts[i].stock = 10 /\ StatusLabels[i] = "Low Stock"
  /\ stockWrites = 1

NumLowStock(ps) ==
  Cardinality({i \in DOMAIN ps : 0 < ps[i].stock /\ ps[i].stock <= 10})

\* C9: the Dashboard's lowStockProducts and the Inventory's lowStockCount
\* both equal the number of products with 0 < stock <= 10.
C9_LowStockCounts ==
  [][/\ FetchDashboardStats =>
          lowStockProducts' = Some(NumLowStock(FetchedProducts))
     /\ invStats'.lowStockCount = NumLowStock(invProducts')]_vars

\* The Inventory half of C9 on its own.
C9_InventoryLowStockCount ==
  invStats.lowStockCount = NumLowStock(invProducts)

(***************************************************************************)
(* Claims about the Categories / Products listings                         *)
(***************************************************************************)
\* Entries with a serial number first, in ascending serial order; then the
\* entries without one, latest created first.
ListingOrdered(list) ==
  \A i, j \in DOMAIN list :
    i < j =>
      /\ list[i].serialNo = None => list[j].serialNo = None
      /\ (list[i].serialNo /= None /\ list[j].serialNo /= None)
            => Get(list[i].serialNo) <= Get(list[j].serialNo)
      /\ (list[i].serialNo = None /\ list[j].serialNo = None)
            => list[i].createdAt >= list[j].createdAt

\* C10: the lists shown by the Categories and the Products views are always
\* ordered: non-null serial numbers first in ascending order, then the null
\* serial numbers by descending creation time; each snapshot handler shows
\* exactly the entries of its snapshot.
C10_ListingOrder ==
  [][/\ ListingOrdered(categories') /\ ListingOrdered(products')
     /\ CategoriesOnSnapshot =>
          /\ Len(categories') = Len(CategoriesSnapshot)
          /\ Range(categories') = Range(CategoriesSnapshot)
     /\ \A snapshot \in productsPending :
          ProductsCategoriesFetched(snapshot) =>
            /\ Len(products') = Len(snapshot)
            /\ {row.id : row \in Range(products')}
                 = {row.id : row \in Range(snapshot)}]_vars

\* Witness of C10: after a category without serial number was created, the
\* Categories list shows serial 1, serial 3, then the new category and the
\* older category without serial number; the Products list shows its two
\* products without serial number, latest first.
C10_Witness ==
  /\ Len(categories) = 4
  /\ categories[1].serialNo = Some(1) /\ categories[2].serialNo = Some(3)
  /\ categories[3].serialNo = None /\ categories[4].serialNo = None
  /\ categories[3].createdAt > categories[4].createdAt
  /\ Len(products) = 2
  /\ products[1].serialNo = None /\ products[2].serialNo = None
  /\ products[1].createdAt > products[2].createdAt

(***************************************************************************)
(* Claims about the Inventory listing                                      *)
(***************************************************************************)
\* C11: the list shown by the Inventory view is ordered like the other
\* listings: non-null serial numbers first in ascending order, then the
\* null serial numbers by descending creation time.
C11_InventoryListingOrder == ListingOrdered(invProducts)

(***************************************************************************)
(* Claims about the Dashboard and Analytics metrics                        *)
(***************************************************************************)
\* q is the finite quotient a / b.
IsQuotient(q, a, b) == q.den > 0 /\ q.num * b = a * q.den

\* The sum of finalTotal over the first n orders, by position.
RECURSIVE SumFinalTotal(_, _)
SumFinalTotal(orders, n) ==
  IF n = 0 THEN 0
  ELSE SumFinalTotal(orders, n - 1) + orders[n].pricing.finalTotal

\* C12: the average order value the Dashboard and the Analytics view show is
\* the revenue divided by the order count when there are orders and exactly
\* 0 when there are none; it is never the result of a division by zero.
C12_AverageOrderValue ==
  [][/\ FetchDashboardStats =>
          LET stats == Get(dashStats')
              count == Len(FetchedOrders)
          IN /\ stats.totalOrders = count
             /\ stats.totalRevenue = SumFinalTotal(FetchedOrders, count)
             /\ count > 0 =>
                  IsQuotient(stats.avgOrderValue, stats.totalRevenue, count)
             /\ count = 0 => stats.avgOrderValue = Zero
     /\ FetchAnalyticsData =>
          LET data == Get(analyticsData')
          IN /\ data.totalOrders = Len(CurrentOrders(timeRange, today))
             /\ data.totalOrders > 0 =>
                  IsQuotient(data.avgOrderValue, data.totalRevenue,
                             data.totalOrders)
             /\ data.totalOrders = 0 => data.avgOrderValue = Zero]_vars

\* Witness of C12: the Dashboard shows the average 235 of two orders worth
\* 470 while the Analytics view, with no order in its period, shows 0.
C12_Witness ==
  /\ IsSome(dashStats) /\ IsSome(analyticsData)
  /\ Get(dashStats).totalOrders = 2
  /\ Get(dashStats).totalRevenue = 470
  /\ Get(dashStats).avgOrderValue = [num |-> 235, den |-> 1]
  /\ Get(analyticsData).totalOrders = 0
  /\ Get(analyticsData).avgOrderValue = Zero

\* The sum of totalAmount over the paid orders among the first n, by position.
RECURSIVE SumPaid(_, _)
SumPaid(orders, n) ==
  IF n = 0 THEN 0
  ELSE SumPaid(orders, n - 1)
       + (IF "paymentStatus" \in DOMAIN orders[n]
             /\ orders[n].paymentStatus = "paid"
          THEN orders[n].totalAmount ELSE 0)

\* growth is (current - previous) / previous * 100, and 0 for previous = 0.
IsGrowth(growth, current, previous) ==
  /\ previous /= 0 => IsQuotient(growth, (current - previous) * 100, previous)
  /\ previous = 0 => growth = Zero

\* C13: the revenue growth and the order-count growth of the Analytics view
\* are (current - previous) / previous * 100 when the value of the previous
\* period is not 0, and 0 when it is 0.
C13_GrowthGuarded ==
  [][FetchAnalyticsData =>
       LET data == Get(analyticsData')
           current == CurrentOrders(timeRange, today)
           previous == PreviousOrders(timeRange, today)
       IN /\ data.totalRevenue = SumPaid(current, Len(current))
          /\ IsGrowth(data.revenueGrowth, data.totalRevenue,
                      SumPaid(previous, Len(previous)))
          /\ IsGrowth(data.ordersGrowth, Len(current), Len(previous))]_vars

\* Witness of C13: with no revenue in the previous period and a revenue of
\* 280 in the current one the revenue growth shown is 0, while the order
\* count, 1 in both periods, has its growth computed by the formula.
C13_Witness ==
  /\ IsSome(analyticsData)
  /\ Len(PreviousOrders(timeRange, today)) = 1
  /\ ReducePaidAmount(0, PreviousOrders(timeRange, today)) = 0
  /\ Get(analyticsData).totalRevenue = 280
  /\ Get(analyticsData).totalOrders = 1
  /\ Get(analyticsData).revenueGrowth = Zero
  /\ Get(analyticsData).ordersGrowth = Divide(0, 1)

(***************************************************************************)
(* Claims about the stock editor of the Inventory view                     *)
(***************************************************************************)
\* C14: a failed stock write shows exactly one alert, issues no further
\* write and leaves the list, the stats and the store as they were; issuing
\* the write does not touch the list either; only a successful write puts
\* the new stock into the list.
C14_FailedStockWrite ==
  [][/\ \A r \in invInflight :
          StockWriteFails(r) =>
            /\ invAlerts' = invAlerts + 1
            /\ invProducts' = invProducts
            /\ invStats' = invStats
            /\ productsDb' = productsDb
            /\ invInflight' = invInflight \ {r}
            /\ stockWrites' = stockWrites
     /\ \A i \in DOMAIN invProducts :
          HandleSaveStock(i) =>
            /\ invProducts' = invProducts
            /\ invAlerts' = invAlerts
     /\ \A r \in invInflight :
          StockWriteSucceeds(r) =>
            /\ invAlerts' = invAlerts
            /\ \A i \in DOMAIN invProducts' :
                 invProducts'[i].id = r.id => invProducts'[i].stock = r.stock
     /\ invProducts' /= invProducts =>
          \/ FetchDataSucceeds
          \/ \E r \in invInflight : StockWriteSucceeds(r)
     /\ invAlerts + Cardinality(invInflight) <= stockWrites]_vars

\* Witness of C14: the write of stock 11 for a product listed with stock 0
\* failed: one alert was shown, the editor still holds 11, the list and the
\* store still hold 0.
C14_Witness ==
  /\ invAlerts = 1 /\ stockWrites = 1 /\ invInflight = {}
  /\ editingId = Some(1) /\ editStock = 11
  /\ \E i \in DOMAIN invProducts :
       invProducts[i].id = 1 /\ invProducts[i].stock = 0
  /\ productsDb[1].stock = 0

(***************************************************************************)
(* Claims about two admin sessions editing the same stock                  *)
(***************************************************************************)
\* C15: a stock write in flight from either session can always be applied,
\* whatever the other session wrote or is writing (no write is rejected as
\* a conflict), and the store holds the stock of the write applied last.
C15_LastWriteWins ==
  /\ \A r \in invInflight : ENABLED StockWriteSucceeds(r)
  /\ \A r \in peerInflight : ENABLED PeerStockWriteSucceeds(r)
  /\ lastStockWrite.by /= "" =>
       productsDb[lastStockWrite.id].stock = lastStockWrite.stock

\* Witness of C15: both sessions wrote the stock of the same product while
\* the other's write was in flight, with different values; neither saw an
\* alert, each list shows its own value and the store holds the last one.
C15_Witness ==
  /\ lastStockWrite.raced
  /\ invInflight = {} /\ peerInflight = {}
  /\ stockWrites = 1 /\ peerWrites = 1
  /\ invAlerts = 0 /\ peerAlerts = 0
  /\ \E i \in DOMAIN invProducts, j \in DOMAIN peerProducts :
       /\ invProducts[i].id = lastStockWrite.id
       /\ peerProducts[j].id = lastStockWrite.id
       /\ invProducts[i].stock /= peerProducts[j].stock
       /\ productsDb[lastStockWrite.id].stock =
            IF lastStockWrite.by = "peer" THEN peerProducts[j].stock
            ELSE invProducts[i].stock

(***************************************************************************)
(* Claims about the snapshot listeners                                     *)
(***************************************************************************)
\* C16: a mounted list view has exactly one registered listener for each of
\* its queries, and a view that is not mounted has none left in the
\* registry: unmounting releases every listener the view registered, both
\* of them when it registered two.
C16_ListenersReleased ==
  \A view \in ListViews :
    LET own == {l \in listeners : l.view = view}
    IN IF view \in mounted
       THEN /\ Cardinality(own) = Len(ListenerQueries(view))
            /\ {l.collection : l \in own} = Range(ListenerQueries(view))
            /\ {l.id : l \in own} = cleanups[view]
       ELSE own = {}

\* Witness of C16: the Products view, which registers two listeners, was
\* mounted and unmounted while the Orders view stays mounted: only the
\* listener of the Orders view remains.
C16_Witness ==
  /\ mounts = 2
  /\ mounted = {"Orders"}
  /\ cleanups["Products"] = {}
  /\ \E l \in listeners : listeners = {l} /\ l.view = "Orders"
  /\ \A l \in listeners : l.id /= 0

(***************************************************************************)
(* Claims about the category labels                                        *)
(***************************************************************************)
\* The row's categoryId is the id of no category of cats.
MatchesNoCategory(row, cats) == \A id \in DOMAIN cats : id /= row.categoryId

\* Every row whose category is not in cats is labelled 'Unknown', every
\* other row with the name of its category.
LabelledFrom(rows, cats) ==
  \A i \in DOMAIN rows :
    /\ MatchesNoCategory(rows[i], cats) => rows[i].categoryName = "Unknown"
    /\ ~MatchesNoCategory(rows[i], cats) =>
         rows[i].categoryName = cats[rows[i].categoryId].name

\* C17: the list the Products view builds from a products snapshot and the
\* categories fetched after it, and the list the Inventory view builds from
\* the categories and the products it fetched, have a row for every product
\* read, and a row whose categoryId matches no category is labelled
\* 'Unknown': so for the lists that would be built from the current store
\* (the build is defined whatever the store holds) and for the lists the
\* views do show once the reads have resolved.
C17_UnknownCategoryLabel ==
  [][/\ Len(FetchedProducts) = Cardinality(DOMAIN productsDb)
     /\ LabelledFrom(FetchedProducts, categoriesDb)
     /\ \A snapshot \in productsPending :
          /\ LabelledFrom(WithCategoryNames(snapshot, categoriesDb),
                          categoriesDb)
          /\ ProductsCategoriesFetched(snapshot) =>
               /\ Len(products') = Len(snapshot)
               /\ LabelledFrom(products', categoriesDb)
     /\ FetchDataSucceeds =>
          /\ Len(invProducts') = Cardinality(DOMAIN productsDb)
          /\ LabelledFrom(invProducts', categoriesDb)]_vars

\* Witness of C17: after category 1 was deleted both views list product 1,
\* whose categoryId is 1, as 'Unknown', and product 2 under its category.
C17_Witness ==
  /\ 1 \notin DOMAIN categoriesDb
  /\ \E i, j \in DOMAIN products :
       /\ products[i].categoryId = 1 /\ products[i].categoryName = "Unknown"
       /\ products[j].categoryName = "Kitchen"
  /\ \E i, j \in DOMAIN invProducts :
       /\ invProducts[i].categoryId = 1
       /\ invProducts[i].categoryName = "Unknown"
       /\ invProducts[j].categoryName = "Kitchen"

(***************************************************************************)
(* Claims about the series of the Dashboard                                *)
(***************************************************************************)
\* The orders of the store created on day `day`.
CreatedOn(day) ==
  {id \in OrderIds : IsSome(ordersDb[id]) /\ Get(ordersDb[id]).createdAt = day}

\* The orders of the store created in the calendar month `day` falls in.
CreatedInMonthOf(day) ==
  {id \in OrderIds :
     /\ IsSome(ordersDb[id])
     /\ DateOf(Get(ordersDb[id]).createdAt).year = DateOf(day).year
     /\ DateOf(Get(ordersDb[id]).createdAt).month = DateOf(day).month}

\* C18: whatever orders were fetched, the weekly series the Dashboard shows
\* has 7 entries, one for each of the last 7 days, and the monthly series 6;
\* each entry counts the orders of its day or month, and an entry with no
\* order has revenue 0 and order count 0.
C18_SeriesZeroFilled ==
  [][FetchDashboardStats =>
       /\ Len(weeklyData') = 7
       /\ Len(monthlyData') = 6
       /\ \A i \in 1..7 :
            /\ weeklyData'[i].orders = Cardinality(CreatedOn(today - (7 - i)))
            /\ CreatedOn(today - (7 - i)) = {} =>
                 weeklyData'[i].revenue = 0 /\ weeklyData'[i].orders = 0
       /\ \A i \in 1..6 :
            LET bucket == CreatedInMonthOf(MonthsBefore(today, 6 - i))
            IN /\ monthlyData'[i].orders = Cardinality(bucket)
               /\ bucket = {} =>
                    /\ monthlyData'[i].revenue = 0
                    /\ monthlyData'[i].orders = 0]_vars

\* Witness of C18: a single order, created today, was fetched: the last
\* entry of each series counts it and the other entries are zero-filled.
C18_Witness ==
  /\ IsSome(dashStats)
  /\ Get(dashStats).totalOrders = 1
  /\ CreatedOn(today) /= {}
  /\ Len(weeklyData) = 7 /\ Len(monthlyData) = 6
  /\ weeklyData[7].orders = 1 /\ weeklyData[7].revenue > 0
  /\ monthlyData[6].orders = 1
  /\ \A i \in 1..6 : weeklyData[i].orders = 0 /\ weeklyData[i].revenue = 0
  /\ \A i \in 1..5 : monthlyData[i].orders = 0 /\ monthlyData[i].revenue = 0

(***************************************************************************)
(* Claims about failed remote operations                                   *)
(***************************************************************************)
\* C19: every remote operation that has failed has produced a toast or an
\* alert: as many notices were shown as operations failed.
C19_FailuresNotified == failureNotices = remoteFailures

(***************************************************************************)
(* Claims about the order details dialog                                   *)
(***************************************************************************)
\* C20: while the details dialog shows an order, the tracking card is
\* rendered exactly when the status of that order is neither delivered nor
\* cancelled.
C20_TrackingControlHidden ==
  (isDetailsOpen /\ IsSome(selectedOrder)) =>
    (TrackingCardShown <=>
       Get(selectedOrder).status \notin {"delivered", "cancelled"})

(***************************************************************************)
(* Claims about the batch deletion of orders                               *)
(***************************************************************************)
BatchInFlight == \E r \in inflight : r.kind = "batch"

\* C21: isDeleting is true exactly while a batch commit is in flight; a
\* deleteSelectedOrders with a non-empty selection sets it and issues one
\* commit of the selected ids; when the commit succeeds the selection becomes
\* empty and the confirmation dialog closes, when it fails both are left as
\* they were, and in both cases isDeleting is false afterwards; with an empty
\* selection deleteSelectedOrders changes nothing and issues no write.
C21_DeletingFlag ==
  [][/\ isDeleting' <=> BatchInFlight'
     /\ DeleteSelectedOrders =>
          IF Len(selectedOrderIds) = 0
          THEN UNCHANGED ordersVars
          ELSE /\ isDeleting'
               /\ \E r \in inflight' \ inflight :
                    r.kind = "batch" /\ r.ids = selectedOrderIds
     /\ \A r \in inflight :
          /\ BatchCommitSucceeds(r) =>
               /\ ~isDeleting'
               /\ selectedOrderIds' = <<>>
               /\ ~isDeleteConfirmOpen'
          /\ BatchCommitFails(r) =>
               /\ ~isDeleting'
               /\ UNCHANGED <<selectedOrderIds, isDeleteConfirmOpen>>]_vars

\* Witness of C21: a batch commit of a non-empty selection has failed; the
\* flag is down while the selection and the open dialog are still there.
C21_Witness ==
  /\ lastWrite.kind = "batch" /\ ~lastWrite.ok
  /\ ~isDeleting
  /\ isDeleteConfirmOpen
  /\ Len(selectedOrderIds) > 0

(***************************************************************************)
(* Claims about the monthly buckets of the Dashboard                       *)
(***************************************************************************)
\* The calendar month a day falls in, counted in months.
MonthIndex(day) == DateOf(day).year * 12 + DateOf(day).month

\* The orders of the store created in the six calendar months that end with
\* the month of `now`.
CreatedInLast6Months(now) ==
  {id \in OrderIds :
     /\ IsSome(ordersDb[id])
     /\ MonthIndex(Get(ordersDb[id]).createdAt)
          \in (MonthIndex(now) - 5) .. MonthIndex(now)}

RECURSIVE SumBucketOrders(_)
SumBucketOrders(buckets) ==
  IF buckets = <<>> THEN 0
  ELSE Head(buckets).orders + SumBucketOrders(Tail(buckets))

\* C22: whatever the current date is, the six monthly buckets the Dashboard
\* has built are the six consecutive calendar months ending with the current
\* month, and every order created in those months is counted in exactly one
\* bucket: the counts of the buckets add up to the number of those orders.
C22_MonthlyBuckets ==
  Len(monthlyData) = 6 =>
    /\ \A i \in 1..6 :
         monthlyData[i].month = (MonthIndex(today) - (6 - i)) % 12
    /\ SumBucketOrders(monthlyData)
         = Cardinality(CreatedInLast6Months(today))

(***************************************************************************)
(* Claims about the loading state                                          *)
(***************************************************************************)
\* C23: once the initial remote reads of the view shown have completed or
\* failed, the view has left its loading state: loading is false, for the
\* one-shot views and for the subscription views alike.
C23_LoadingCleared ==
  (IsSome(opened) /\ ReadsSettled) => ~viewLoading

(***************************************************************************)
(* Claims about the selection of orders                                    *)
(***************************************************************************)
NoDuplicates(s) == \A i, j \in DOMAIN s : s[i] = s[j] => i = j

\* C24: when deleteSelectedOrders issues its batch commit, every selected id
\* is the id of an order in the filtered list shown, and no id is selected
\* twice: a batch delete never targets an order the filter hides or an order
\* that no longer exists.
C24_SelectionVisible ==
  [][(DeleteSelectedOrders /\ Len(selectedOrderIds) > 0)
       => /\ Range(selectedOrderIds) \subseteq Range(filteredOrders)
          /\ NoDuplicates(selectedOrderIds)]_vars

(***************************************************************************)
(* Claims about the tracking input of the details dialog                   *)
(***************************************************************************)
\* C25: when updateTrackingNumber issues a write for the order shown in the
\* details dialog, the tracking text it carries was typed while the dialog
\* showed that same order: text typed for one order is never applied to
\* another.
C25_TrackingTypedForOrder ==
  [][\A id \in OrderIds :
       (/\ TrackingCardShown
        /\ Get(selectedOrder).id = id
        /\ ~IsBlank(trackingNumber)
        /\ UpdateTrackingNumber(id))
         => typedFor = Some(id)]_vars

\* C26: while the details dialog is open, the status and the tracking number
\* it displays are those of the same order in the latest snapshot, and the
\* tracking card is not offered once the stored status is shipped or
\* delivered.
C26_DialogShowsLatest ==
  (/\ isDetailsOpen
   /\ IsSome(selectedOrder)
   /\ IsSome(ordersDb[Get(selectedOrder).id]))
    => LET shown == Get(selectedOrder)
           stored == Get(ordersDb[shown.id])
       IN /\ shown.status = stored.status
          /\ shown.trackingNumber = stored.trackingNumber
          /\ stored.status \in {"shipped", "delivered"} => ~TrackingCardShown

(***************************************************************************)
(* Claims about the stock classes of the Inventory view                    *)
(***************************************************************************)
StockClasses == {"out", "low", "in"}

ClassLabel(class) ==
  CASE class = "out" -> "Out of Stock"
    [] class = "low" -> "Low Stock"
    [] class = "in" -> "In Stock"

\* C27: every product of the Inventory list matches exactly one of the stock
\* filters out, low and in; its status label is the one of that class; and
\* lowStockCount + outOfStockCount + the number of rows labelled In Stock is
\* totalProducts.
C27_StockClassesAgree ==
  /\ \A i \in DOMAIN invProducts :
       /\ Cardinality({c \in StockClasses : MatchesStock(c, invProducts[i])})
            = 1
       /\ \A c \in StockClasses :
            MatchesStock(c, invProducts[i]) <=> StatusLabels[i] = ClassLabel(c)
  /\ invStats.lowStockCount + invStats.outOfStockCount
       + Cardinality({i \in DOMAIN invProducts : StatusLabels[i] = "In Stock"})
       = invStats.totalProducts

(***************************************************************************)
(* Claims about the form dialogs                                           *)
(***************************************************************************)
\* C28: while the combo dialog is open after the Create Combo button opened
\* it, the form edits no existing combo, and a submit that passes the
\* validation issues an addDoc, never an updateDoc of a combo that was opened
\* for editing before and dismissed.
C28_AddCreatesNew ==
  [][/\ (isDialogOpen' /\ openedBy' = "add") => editingCombo' = None
     /\ (/\ openedBy = "add"
         /\ ~TooFewProducts(formProducts)
         /\ HandleSubmit)
          => \E r \in comboInflight' \ comboInflight : r.kind = "add"]_vars

(***************************************************************************)
(* Claims about the snapshots of the Products view                         *)
(***************************************************************************)
\* The rows of a list without their category names.
BareRows(list) == {[list[i] EXCEPT !.categoryName = ""] : i \in DOMAIN list}

\* C29: once no products callback is awaiting its category fetch, the list
\* the Products view shows holds the rows of the products snapshot delivered
\* last: an older snapshot whose fetch completes later never replaces it.
C29_LatestSnapshotShown ==
  (productsPending = {} /\ IsSome(lastDelivered))
    => BareRows(products) = BareRows(Get(lastDelivered))

(***************************************************************************)
(* Claims about concurrent saves in one Inventory session                  *)
(***************************************************************************)
\* C30: in a single session, once every stock write issued has succeeded and
\* no write or fetch is in flight, every row of the Inventory list shows the
\* stock the store holds for its product, i.e. the stock written to it last.
C30_ListMatchesStore ==
  (invInflight = {} /\ ~invLoading /\ invAlerts = 0)
    => \A i \in DOMAIN invProducts :
         invProducts[i].stock = productsDb[invProducts[i].id].stock

====
